---- MODULE Spec2Model ----
(***************************************************************************)
(* State-machine model of the real-time voice activity detector.           *)
(*                                                                         *)
(* RealTimeVAD (the orchestrator: start / pause / processAudio / flush /   *)
(* reset / destroy / handleFrameProcessorEvent) is translated from its     *)
(* source.  The FrameProcessor, the Resampler and the Silero model live in *)
(* ./common, whose implementation files are not part of the sources at     *)
(* hand; they are modelled from the specification (sections 4.1, 4.2, 6).  *)
(*                                                                         *)
(* A sample is represented by the (1-based) position it had in the stream  *)
(* of native samples submitted to processAudio; 0 is the zero sample that  *)
(* flush() pads with.  A frame and an audio buffer are sequences of        *)
(* samples.  A speech probability is a percentage.                         *)
(***************************************************************************)
EXTENDS Integers, Sequences, FiniteSets, TLC

VARIABLES
    cfg,        \* this.options (fixed at construction)
    active,     \* RealTimeVAD.active
    buffer,     \* RealTimeVAD.buffer (pending 16 kHz samples)
    resIn,      \* Resampler input residue
    fp,         \* FrameProcessor state
    modelAge,   \* model recurrent state: inferences since the last reset_state()
    calls,      \* outstanding async calls (processAudio / flush), per slot
    nextId,     \* number of native samples submitted so far
    opsLeft,    \* remaining budget of control operations
    lim,        \* the caller's budget: [calls, samples, ops]
    failsLeft,  \* model inference failures still to come
    handed,     \* history: the calls of FrameProcessor.process: [frame, outcome]
    emitted,    \* history: events produced by the FrameProcessor, in order
    delivered,  \* history: callbacks invoked on the caller, in order
    dropped,    \* history: segments discarded without event, by what (resume, pause, endSegment)
    processingAudio,  \* AudioNodeVAD: the guard of the onaudioprocess handler
    arrived     \* AudioNodeVAD history: the audio buffers given to onaudioprocess

vars == <<cfg, active, buffer, resIn, fp, modelAge, calls, nextId, opsLeft, lim, failsLeft,
          handed, emitted, delivered, dropped, processingAudio, arrived>>

----------------------------------------------------------------------------
(* Bounds and configuration                                                *)

\* options.frameSamples, kept small
frameSamples == 2

\* total number of 16 kHz-equivalent samples the caller submits
MaxSamples == 7

\* number of control operations (start, pause, flush, reset, destroy)
MaxOps == 2

\* number of model inferences that fail
MaxFailures == 1

\* number of processAudio / flush calls that may be outstanding together
MaxCalls == 2

\* largest chunk, in frames, a single processAudio call submits
MaxChunkFrames == 2

Slots == 1..MaxCalls

\* what the caller does at most: calls outstanding together, samples
\* submitted (16 kHz equivalent), control operations
Limits ==
    { [calls |-> 1, samples |-> MaxSamples, ops |-> MaxOps],
      [calls |-> MaxCalls, samples |-> MaxSamples - 2, ops |-> MaxOps] }

\* model outputs (isSpeech, in percent): below p-, middle band, at least p+
Probs == {10, 40, 90}

Option(rf, pad, minf, sub, rate) ==
    [ positiveSpeechThreshold |-> 50, negativeSpeechThreshold |-> 35,
      redemptionFrames |-> rf, preSpeechPadFrames |-> pad,
      minSpeechFrames |-> minf, submitUserSpeechOnPause |-> sub,
      sampleRate |-> rate ]

\* the configurations explored (all pass validateOptions)
Configs ==
    { Option(0, 0, 0, FALSE, 16000),
      Option(1, 1, 1, TRUE,  16000),
      Option(2, 1, 2, FALSE, 16000),
      Option(1, 2, 2, TRUE,  16000),
      Option(1, 1, 2, TRUE,  48000) }

\* the configurations explored with overlapping calls
OverlapConfigs ==
    { Option(1, 1, 1, TRUE, 16000) }

----------------------------------------------------------------------------
(* Sequence helpers                                                        *)

RECURSIVE Concat(_)
Concat(ss) == IF ss = <<>> THEN <<>> ELSE Head(ss) \o Concat(Tail(ss))

RECURSIVE SumSeq(_)
SumSeq(s) == IF s = <<>> THEN 0 ELSE Head(s) + SumSeq(Tail(s))

Slice(s, from) == SubSeq(s, from + 1, Len(s))          \* Float32Array.slice(from)
SliceTo(s, n) == SubSeq(s, 1, n)                       \* Float32Array.slice(0, n)
Range(s) == { s[i] : i \in 1..Len(s) }

----------------------------------------------------------------------------
(* Events: the Partial<{probs, msg, audio, frame}> value the               *)
(* FrameProcessor returns.  A missing key is an undefined field.           *)

Has(ev, key) == key \in DOMAIN ev
NoEvent == [none |-> TRUE]                               \* {}
MsgOf(ev) == IF Has(ev, "msg") THEN ev.msg ELSE "none"

----------------------------------------------------------------------------
(* Resampler (specification section 4.1)                                   *)

\* inputSamplesPerFrame = ceil(targetFrameSize * nativeRate / 16000)
InputSamplesPerFrame(rate) == (frameSamples * rate + 15999) \div 16000

Max2(a, b) == IF a > b THEN a ELSE b
Min2(a, b) == IF a < b THEN a ELSE b

\* output sample k (0-based) of the frame made from window w: the average of
\* the input samples floor((k-1)r)+1 .. floor(k r), clamped to the window
OutputSample(w, k, rate) ==
    LET prev == Max2(0, (((k - 1) * rate) \div 16000) + 1)
        cur  == Min2(Len(w) - 1, (k * rate) \div 16000)
        win  == SubSeq(w, prev + 1, cur + 1)
    IN  SumSeq(win) \div Len(win)

GenerateOutputFrame(w, rate) ==
    [k \in 1..frameSamples |-> OutputSample(w, k - 1, rate)]

\* a resampler that makes at most one frame per call
ResampleFramesOnePerCall(inp, rate) ==
    LET n == InputSamplesPerFrame(rate)
    IN  IF Len(inp) < n THEN <<>>
        ELSE <<GenerateOutputFrame(SliceTo(inp, n), rate)>>

\* frames produced from the input buffer `inp', consuming
\* inputSamplesPerFrame samples per frame while that many remain
RECURSIVE ResampleFrames(_, _)
ResampleFrames(inp, rate) ==
    LET n == InputSamplesPerFrame(rate)
    IN  IF Len(inp) < n THEN <<>>
        ELSE <<GenerateOutputFrame(SliceTo(inp, n), rate)>>
                 \o ResampleFrames(Slice(inp, n), rate)

\* a resampler that forgets its residue between calls
ResampleResidueDropped(inp, rate) == <<>>

ResampleResidue(inp, rate) ==
    LET n == InputSamplesPerFrame(rate)
    IN  Slice(inp, (Len(inp) \div n) * n)

----------------------------------------------------------------------------
(* FrameProcessor (specification section 4.2)                              *)

InSpeech(f) == f.state \in {"Speaking", "SpeakingConfirmed", "Redemption"}

FPCleared(st) ==
    [ state |-> st, origin |-> "none", preRoll |-> <<>>, segment |-> <<>>,
      speechFramesInSegment |-> 0, redemptionCounter |-> 0 ]

\* the FrameProcessor of a new instance: Idle, nothing accumulated
FPInit == FPCleared("Idle")

\* resume(): clears ring, accumulator and counters; state Silence
FPResume(f) == FPCleared("Silence")

\* the pre-roll ring without eviction
PushRingUnbounded(ring, frame) == Append(ring, frame)

\* push into the pre-roll ring, evicting the oldest frames beyond capacity
PushRing(ring, frame) ==
    LET r == Append(ring, frame)
        cap == cfg.preSpeechPadFrames
    IN  IF Len(r) > cap THEN SubSeq(r, Len(r) - cap + 1, Len(r)) ELSE r

\* the confirmation test without its look at the state
ConfirmsInAnyState(st, count) == count >= cfg.minSpeechFrames

\* Speaking -> SpeakingConfirmed once the counter has reached minSpeechFrames
Confirms(st, count) == st = "Speaking" /\ count >= cfg.minSpeechFrames

\* segment termination once the redemption counter is exhausted
FPTerminate(seg, count, p, frame) ==
    [ fp |-> FPCleared("Silence"), resetModel |-> TRUE,
      ev |-> IF count >= cfg.minSpeechFrames
             THEN [probs |-> p, frame |-> frame, msg |-> "SpeechEnd",
                   audio |-> Concat(seg)]
             ELSE [probs |-> p, frame |-> frame, msg |-> "VADMisfire"] ]

\* a speech frame that starts the accumulator afresh
FPSpeechFrameRestarts(f, st, counted, p, frame) ==
    [ fp |-> [f EXCEPT !.state = st, !.origin = "none", !.segment = <<frame>>,
                       !.redemptionCounter = 0],
      resetModel |-> FALSE,
      ev |-> [probs |-> p, frame |-> frame] ]

\* a frame with isSpeech >= p+ inside a segment, coming from state `st'
\* (Speaking, SpeakingConfirmed) or returning to redemptionOrigin `st'
FPSpeechFrame(f, st, counted, p, frame) ==
    LET count == IF counted THEN f.speechFramesInSegment + 1
                 ELSE f.speechFramesInSegment
        conf == counted /\ Confirms(st, count)
    IN  [ fp |-> [f EXCEPT !.state = IF conf THEN "SpeakingConfirmed" ELSE st,
                           !.origin = "none",
                           !.segment = Append(f.segment, frame),
                           !.speechFramesInSegment = count,
                           !.redemptionCounter = 0],
          resetModel |-> FALSE,
          ev |-> IF conf
                 THEN [probs |-> p, frame |-> frame, msg |-> "SpeechRealStart"]
                 ELSE [probs |-> p, frame |-> frame] ]

\* process(frame), the part after the model returned isSpeech = p:
\* the transition table; FrameProcessed{probs, frame} is always part of it
FPProcess(f, frame, p) ==
    LET hi == p >= cfg.positiveSpeechThreshold
        lo == p < cfg.negativeSpeechThreshold
        plain == [probs |-> p, frame |-> frame]
    IN  CASE f.state = "Idle" ->
               [fp |-> f, resetModel |-> FALSE, ev |-> plain]
          [] f.state = "Silence" /\ hi ->
               [fp |-> [f EXCEPT !.state = "Speaking",
                                 !.segment = Append(f.preRoll, frame),
                                 !.preRoll = <<>>,
                                 !.speechFramesInSegment = 1],
                resetModel |-> FALSE,
                ev |-> [probs |-> p, frame |-> frame, msg |-> "SpeechStart"]]
          [] f.state = "Silence" /\ ~hi ->
               [fp |-> [f EXCEPT !.preRoll = PushRing(f.preRoll, frame)],
                resetModel |-> FALSE, ev |-> plain]
          [] f.state \in {"Speaking", "SpeakingConfirmed"} /\ hi ->
               FPSpeechFrame(f, f.state, TRUE, p, frame)
          [] f.state \in {"Speaking", "SpeakingConfirmed"} /\ ~hi /\ ~lo ->
               [fp |-> [f EXCEPT !.segment = Append(f.segment, frame)],
                resetModel |-> FALSE, ev |-> plain]
          [] f.state \in {"Speaking", "SpeakingConfirmed"} /\ lo ->
               [fp |-> [f EXCEPT !.state = "Redemption",
                                 !.origin = f.state,
                                 !.segment = Append(f.segment, frame),
                                 !.redemptionCounter = cfg.redemptionFrames],
                resetModel |-> FALSE, ev |-> plain]
          [] f.state = "Redemption" /\ hi ->
               FPSpeechFrame(f, f.origin, f.origin = "Speaking", p, frame)
          [] f.state = "Redemption" /\ ~hi ->
               IF f.redemptionCounter - 1 <= 0
               THEN FPTerminate(Append(f.segment, frame),
                                f.speechFramesInSegment, p, frame)
               ELSE [fp |-> [f EXCEPT !.segment = Append(f.segment, frame),
                                      !.redemptionCounter = @ - 1],
                     resetModel |-> FALSE, ev |-> plain]

\* the event pause() and endSegment() share
FPFinalEvent(f) ==
    IF InSpeech(f) /\ cfg.submitUserSpeechOnPause
                   /\ f.speechFramesInSegment >= cfg.minSpeechFrames
    THEN [msg |-> "SpeechEnd", audio |-> Concat(f.preRoll \o f.segment)]
    ELSE IF InSpeech(f) /\ f.speechFramesInSegment < cfg.minSpeechFrames
    THEN [msg |-> "VADMisfire"]
    ELSE NoEvent

\* pause(): final event, state unconditionally Idle
FPPause(f) == [fp |-> FPCleared("Idle"), ev |-> FPFinalEvent(f)]

\* endSegment(): same logic as pause, state returns to Silence
FPEndSegment(f) == [fp |-> FPCleared("Silence"), ev |-> FPFinalEvent(f)]

\* history: the events an FrameProcessor result stands for, in order
EventsOf(ev) ==
    (IF Has(ev, "probs")
     THEN <<[msg |-> "FrameProcessed", probs |-> ev.probs, frame |-> ev.frame]>>
     ELSE <<>>)
    \o (IF ~Has(ev, "msg") THEN <<>>
        ELSE IF Has(ev, "audio") THEN <<[msg |-> ev.msg, audio |-> ev.audio]>>
        ELSE <<[msg |-> ev.msg]>>)

\* history: pause() / endSegment() discard the segment in progress, which
\* reached minSpeechFrames, because submitUserSpeechOnPause is off
Discards(f) ==
    IF InSpeech(f) /\ ~cfg.submitUserSpeechOnPause
                   /\ f.speechFramesInSegment >= cfg.minSpeechFrames
    THEN 1 ELSE 0

----------------------------------------------------------------------------
(* RealTimeVAD: the orchestrator                                           *)

Free == [pc |-> "idle"]
FreeSlots == { c \in 1..lim.calls : calls[c].pc = "idle" }
FirstFree == CHOOSE c \in FreeSlots : \A d \in FreeSlots : c <= d
Quiescent == \A c \in Slots : calls[c].pc = "idle"

Ratio == cfg.sampleRate \div 16000

\* chunk lengths (native samples) a processAudio call may carry: empty,
\* shorter than a frame, exactly a frame, several frames and a residue
ChunkLens ==
    { n * Ratio : n \in {0, 1, frameSamples, MaxChunkFrames * frameSamples + 1} }

\* the samples of the next chunk of n native samples
Chunk(n) == [i \in 1..n |-> nextId + i]

Zeros(n) == [i \in 1..n |-> 0]

\* handleFrameProcessorEvent without its VADMisfire case
HandleDropsMisfire(ev) ==
    (IF Has(ev, "probs") /\ Has(ev, "frame")
     THEN <<[cb |-> "onFrameProcessed", probs |-> ev.probs, frame |-> ev.frame]>>
     ELSE <<>>)
    \o (CASE MsgOf(ev) = "SpeechStart" -> <<[cb |-> "onSpeechStart"]>>
          [] MsgOf(ev) = "SpeechEnd" ->
                IF Has(ev, "audio")
                THEN <<[cb |-> "onSpeechEnd", audio |-> ev.audio]>>
                ELSE <<>>
          [] OTHER -> <<>>)

\* handleFrameProcessorEvent whose VADMisfire case falls through to the
\* SpeechEnd case
HandleEndsMisfire(ev) ==
    (IF Has(ev, "probs") /\ Has(ev, "frame")
     THEN <<[cb |-> "onFrameProcessed", probs |-> ev.probs, frame |-> ev.frame]>>
     ELSE <<>>)
    \o (CASE MsgOf(ev) = "SpeechStart" -> <<[cb |-> "onSpeechStart"]>>
          [] MsgOf(ev) = "VADMisfire" -> <<[cb |-> "onSpeechEnd", audio |-> <<>>]>>
          [] MsgOf(ev) = "SpeechEnd" ->
                IF Has(ev, "audio")
                THEN <<[cb |-> "onSpeechEnd", audio |-> ev.audio]>>
                ELSE <<>>
          [] OTHER -> <<>>)

\* handleFrameProcessorEvent passing on the audio without its first frame
HandleTruncatesAudio(ev) ==
    (IF Has(ev, "probs") /\ Has(ev, "frame")
     THEN <<[cb |-> "onFrameProcessed", probs |-> ev.probs, frame |-> ev.frame]>>
     ELSE <<>>)
    \o (CASE MsgOf(ev) = "SpeechStart" -> <<[cb |-> "onSpeechStart"]>>
          [] MsgOf(ev) = "VADMisfire" -> <<[cb |-> "onVADMisfire"]>>
          [] MsgOf(ev) = "SpeechEnd" ->
                IF Has(ev, "audio")
                THEN <<[cb |-> "onSpeechEnd", audio |-> Slice(ev.audio, frameSamples)]>>
                ELSE <<>>
          [] OTHER -> <<>>)

\* handleFrameProcessorEvent(ev): the callbacks invoked, in order
HandleFrameProcessorEvent(ev) ==
    (IF Has(ev, "probs") /\ Has(ev, "frame")
     THEN <<[cb |-> "onFrameProcessed", probs |-> ev.probs, frame |-> ev.frame]>>
     ELSE <<>>)
    \o (CASE MsgOf(ev) = "SpeechStart" -> <<[cb |-> "onSpeechStart"]>>
          [] MsgOf(ev) = "VADMisfire" -> <<[cb |-> "onVADMisfire"]>>
          [] MsgOf(ev) = "SpeechEnd" ->
                IF Has(ev, "audio")
                THEN <<[cb |-> "onSpeechEnd", audio |-> ev.audio]>>
                ELSE <<>>
          [] OTHER -> <<>>)

\* history: process(frame) called; outcome "pending" (waiting for the
\* model), "ignored" (FrameProcessor Idle), later "returned" or "threw"
Handed(frame, outcome) == [frame |-> frame, outcome |-> outcome]

\* history: the pending call of process(frame) ends with `outcome'
Mark(h, frame, outcome) ==
    [i \in 1..Len(h) |->
        IF h[i].frame = frame /\ h[i].outcome = "pending"
        THEN Handed(frame, outcome) ELSE h[i]]

\* the complete frames at the front of buf, in order, each handed to an
\* Idle FrameProcessor
RECURSIVE IgnoredFrames(_)
IgnoredFrames(buf) ==
    IF Len(buf) < frameSamples THEN <<>>
    ELSE <<Handed(SliceTo(buf, frameSamples), "ignored")>>
             \o IgnoredFrames(Slice(buf, frameSamples))

\* a frame loop that ends as soon as the FrameProcessor is Idle
FrameLoopStopsWhenIdle(buf, idle) ==
    IF Len(buf) < frameSamples \/ idle
    THEN [buffer |-> buf, handed |-> <<>>, wait |-> <<>>]
    ELSE [buffer |-> Slice(buf, frameSamples),
          handed |-> <<Handed(SliceTo(buf, frameSamples), "pending")>>,
          wait |-> <<SliceTo(buf, frameSamples)>>]

\* the frame loop of processAudio, run until it suspends or ends.
\* While the FrameProcessor is Idle, process(frame) returns {} at once, so
\* every complete frame is taken off the buffer and ignored; otherwise one
\* frame is taken and the loop waits for the model (wait = <<frame>>).
FrameLoop(buf, idle) ==
    IF Len(buf) < frameSamples
    THEN [buffer |-> buf, handed |-> <<>>, wait |-> <<>>]
    ELSE IF idle
    THEN [buffer |-> Slice(buf, (Len(buf) \div frameSamples) * frameSamples),
          handed |-> IgnoredFrames(buf), wait |-> <<>>]
    ELSE [buffer |-> Slice(buf, frameSamples),
          handed |-> <<Handed(SliceTo(buf, frameSamples), "pending")>>,
          wait |-> <<SliceTo(buf, frameSamples)>>]

\* flush() handing over the residue as it is
PaddedFrameUnpadded(buf) == buf

\* the frame flush() builds from a residue: zero-padded to frameSamples
PaddedFrame(buf) == buf \o Zeros(frameSamples - Len(buf))

\* the samples processAudio appends for a chunk once resampled
ProcessedAudio(inp, rate) == Concat(ResampleFrames(inp, rate))

\* the state a control operation can change
Core == <<active, buffer, fp, modelAge, calls, handed, emitted, delivered, dropped>>

\* a control operation that changes something uses up one of the caller's
Spend == opsLeft' = IF Core' = Core THEN opsLeft ELSE opsLeft - 1

Init ==
    /\ cfg \in Configs
    /\ active = FALSE
    /\ buffer = <<>>
    /\ resIn = <<>>
    /\ fp = FPInit
    /\ modelAge = 0
    /\ calls = [c \in Slots |-> Free]
    /\ nextId = 0
    /\ lim \in Limits
    /\ lim.calls > 1 => cfg \in OverlapConfigs
    /\ opsLeft = lim.ops
    /\ failsLeft = MaxFailures
    /\ handed = <<>>
    /\ emitted = <<>>
    /\ delivered = <<>>
    /\ dropped = <<>>
    /\ processingAudio = FALSE
    /\ arrived = <<>>

\* start() that also drops the pending samples
StartClearsBuffer ==
    /\ opsLeft > 0
    /\ active' = TRUE
    /\ fp' = FPResume(fp)
    /\ modelAge' = 0
    /\ buffer' = <<>>
    /\ dropped' = dropped \o (IF InSpeech(fp) THEN <<"resume">> ELSE <<>>)
    /\ UNCHANGED <<processingAudio, arrived, cfg, lim, failsLeft, resIn, calls, nextId, handed, emitted, delivered>>
    /\ Spend

\* start()
Start ==
    /\ opsLeft > 0
    /\ active' = TRUE
    /\ fp' = FPResume(fp)
    /\ modelAge' = 0
    /\ dropped' = dropped \o (IF InSpeech(fp) THEN <<"resume">> ELSE <<>>)
    /\ UNCHANGED <<processingAudio, arrived, cfg, lim, failsLeft, buffer, resIn, calls, nextId, handed, emitted, delivered>>
    /\ Spend

\* pause() that drops what FrameProcessor.pause() returns
PauseUnhandled ==
    /\ opsLeft > 0
    /\ LET r == FPPause(fp)
       IN  /\ active' = FALSE
           /\ fp' = r.fp
           /\ emitted' = emitted \o EventsOf(r.ev)
           /\ dropped' = dropped \o [i \in 1..Discards(fp) |-> "pause"]
    /\ UNCHANGED <<processingAudio, arrived, cfg, lim, failsLeft, buffer, resIn, modelAge, calls, nextId, handed,
                   delivered>>
    /\ Spend

\* pause() that only clears `active' and leaves the FrameProcessor alone
PauseOnlyDeactivates ==
    /\ opsLeft > 0
    /\ active' = FALSE
    /\ UNCHANGED <<processingAudio, arrived, cfg, lim, failsLeft, buffer, resIn, fp, modelAge, calls, nextId, handed,
                   emitted, delivered, dropped>>
    /\ Spend

\* pause()
Pause ==
    /\ opsLeft > 0
    /\ LET r == FPPause(fp)
       IN  /\ active' = FALSE
           /\ fp' = r.fp
           /\ emitted' = emitted \o EventsOf(r.ev)
           /\ delivered' = delivered \o HandleFrameProcessorEvent(r.ev)
           /\ dropped' = dropped \o [i \in 1..Discards(fp) |-> "pause"]
    /\ UNCHANGED <<processingAudio, arrived, cfg, lim, failsLeft, buffer, resIn, modelAge, calls, nextId, handed>>
    /\ Spend

\* the fields of the instance (and of the objects it owns), as one value
Instance ==
    [ active |-> active, buffer |-> buffer, resIn |-> resIn, fp |-> fp,
      modelAge |-> modelAge, calls |-> calls ]

\* reset() that drops one frame of pending samples instead of all of them
AfterResetDropsOneFrame(s) ==
    [s EXCEPT !.buffer = Slice(s.buffer, Min2(frameSamples, Len(s.buffer))),
              !.modelAge = 0]

\* reset() as a function of the instance: an empty buffer, the model's
\* state reset
AfterReset(s) == [s EXCEPT !.buffer = <<>>, !.modelAge = 0]

\* reset() that also empties the resampler's input buffer
ResetClearsResampler ==
    /\ opsLeft > 0
    /\ buffer' = <<>>
    /\ modelAge' = 0
    /\ resIn' = <<>>
    /\ UNCHANGED <<processingAudio, arrived, cfg, lim, failsLeft, active, fp, calls, nextId, handed, emitted,
                   delivered, dropped>>
    /\ opsLeft' = IF Core' = Core /\ resIn = <<>> THEN opsLeft ELSE opsLeft - 1

\* reset()
Reset ==
    /\ opsLeft > 0
    /\ buffer' = <<>>
    /\ modelAge' = 0
    /\ UNCHANGED <<processingAudio, arrived, cfg, lim, failsLeft, active, resIn, fp, calls, nextId, handed, emitted,
                   delivered, dropped>>
    /\ Spend

\* destroy() that resets and never pauses
DestroyOnlyResets ==
    /\ opsLeft > 0
    /\ buffer' = <<>>
    /\ modelAge' = 0
    /\ UNCHANGED <<processingAudio, arrived, cfg, lim, failsLeft, active, resIn, fp, calls, nextId, handed, emitted,
                   delivered, dropped>>
    /\ Spend

\* destroy(): pause() then reset()
Destroy ==
    /\ opsLeft > 0
    /\ LET r == FPPause(fp)
       IN  /\ active' = FALSE
           /\ fp' = r.fp
           /\ emitted' = emitted \o EventsOf(r.ev)
           /\ delivered' = delivered \o HandleFrameProcessorEvent(r.ev)
           /\ dropped' = dropped \o [i \in 1..Discards(fp) |-> "pause"]
    /\ buffer' = <<>>
    /\ modelAge' = 0
    /\ UNCHANGED <<processingAudio, arrived, cfg, lim, failsLeft, resIn, calls, nextId, handed>>
    /\ Spend

\* processAudio without its `if (!this.active) return': the chunk is taken
ProcessAudioUnguarded(n) ==
    /\ ~active
    /\ FreeSlots # {}
    /\ nextId + n <= lim.samples * Ratio
    /\ nextId' = nextId + n
    /\ buffer' = buffer \o Chunk(n)
    /\ UNCHANGED <<processingAudio, arrived, cfg, lim, failsLeft, active, resIn, fp, modelAge, calls, opsLeft, handed,
                   emitted, delivered, dropped>>

\* processAudio(audioData) on a paused instance: returns at once
ProcessAudioPaused(n) ==
    /\ ~active
    /\ UNCHANGED vars

\* processAudio that replaces the pending samples by the chunk instead of
\* appending the chunk to them
ProcessAudioDirectReplaces(n) ==
    /\ active
    /\ cfg.sampleRate = 16000
    /\ FreeSlots # {}
    /\ nextId + n <= lim.samples * Ratio
    /\ nextId' = nextId + n
    /\ LET c == FirstFree
           L == FrameLoop(Chunk(n), fp.state = "Idle")
       IN  /\ buffer' = L.buffer
           /\ handed' = handed \o L.handed
           /\ calls' = [calls EXCEPT ![c] =
                  IF L.wait = <<>> THEN Free
                  ELSE [pc |-> "infer", kind |-> "processAudio",
                        frame |-> L.wait[1], lo |-> nextId + 1, hi |-> nextId + n]]
    /\ UNCHANGED <<processingAudio, arrived, cfg, lim, failsLeft, active, resIn, fp, modelAge, opsLeft, emitted,
                   delivered, dropped>>

\* processAudio(audioData), sampleRate = 16000: append the chunk and enter
\* the frame loop, up to the first await
ProcessAudioDirect(n) ==
    /\ active
    /\ cfg.sampleRate = 16000
    /\ FreeSlots # {}
    /\ nextId + n <= lim.samples * Ratio
    /\ nextId' = nextId + n
    /\ LET c == FirstFree
           L == FrameLoop(buffer \o Chunk(n), fp.state = "Idle")
       IN  /\ buffer' = L.buffer
           /\ handed' = handed \o L.handed
           /\ calls' = [calls EXCEPT ![c] =
                  IF L.wait = <<>> THEN Free
                  ELSE [pc |-> "infer", kind |-> "processAudio",
                        frame |-> L.wait[1], lo |-> nextId + 1, hi |-> nextId + n]]
    /\ UNCHANGED <<processingAudio, arrived, cfg, lim, failsLeft, active, resIn, fp, modelAge, opsLeft, emitted,
                   delivered, dropped>>

\* processAudio(audioData), sampleRate # 16000: the chunk goes through the
\* resampler; the call suspends in the for-await before it appends
ProcessAudioResample(n) ==
    /\ active
    /\ cfg.sampleRate # 16000
    /\ FreeSlots # {}
    /\ nextId + n <= lim.samples * Ratio
    /\ nextId' = nextId + n
    /\ LET c == FirstFree
           inp == resIn \o Chunk(n)
       IN  /\ resIn' = ResampleResidue(inp, cfg.sampleRate)
           /\ calls' = [calls EXCEPT ![c] =
                  [pc |-> "resampled", kind |-> "processAudio",
                   audio |-> ProcessedAudio(inp, cfg.sampleRate),
                   lo |-> nextId + 1, hi |-> nextId + n]]
    /\ UNCHANGED <<processingAudio, arrived, cfg, lim, failsLeft, active, buffer, fp, modelAge, opsLeft, handed, emitted,
                   delivered, dropped>>

\* processAudio resumes after the for-await: append and enter the frame loop
AppendResampled(c) ==
    /\ calls[c].pc = "resampled"
    /\ LET L == FrameLoop(buffer \o calls[c].audio, fp.state = "Idle")
       IN  /\ buffer' = L.buffer
           /\ handed' = handed \o L.handed
           /\ calls' = [calls EXCEPT ![c] =
                  IF L.wait = <<>> THEN Free
                  ELSE [pc |-> "infer", kind |-> "processAudio",
                        frame |-> L.wait[1], lo |-> calls[c].lo, hi |-> calls[c].hi]]
    /\ UNCHANGED <<processingAudio, arrived, cfg, lim, failsLeft, active, resIn, fp, modelAge, nextId, opsLeft, emitted,
                   delivered, dropped>>

\* the tail of flush() without the reset of the buffer
FlushTailKeepsBuffer(f, em, dl) ==
    LET e == FPEndSegment(f)
    IN  /\ fp' = e.fp
        /\ emitted' = em \o EventsOf(e.ev)
        /\ delivered' = dl \o HandleFrameProcessorEvent(e.ev)
        /\ dropped' = dropped \o [i \in 1..Discards(f) |-> "endSegment"]
        /\ buffer' = buffer

\* the tail of flush(): endSegment, its event, the buffer cleared
FlushTail(f, em, dl) ==
    LET e == FPEndSegment(f)
    IN  /\ fp' = e.fp
        /\ emitted' = em \o EventsOf(e.ev)
        /\ delivered' = dl \o HandleFrameProcessorEvent(e.ev)
        /\ dropped' = dropped \o [i \in 1..Discards(f) |-> "endSegment"]
        /\ buffer' = <<>>

\* flush(), up to its first await or, when it never waits, to its end
Flush ==
    /\ opsLeft > 0
    /\ FreeSlots # {}
    /\ IF Len(buffer) > 0 /\ Len(buffer) < frameSamples
       THEN /\ IF fp.state = "Idle"
               THEN /\ handed' = handed \o <<Handed(PaddedFrame(buffer), "ignored")>>
                    /\ FlushTail(fp, emitted, delivered)
                    /\ UNCHANGED calls
               ELSE /\ handed' = handed \o <<Handed(PaddedFrame(buffer), "pending")>>
                    /\ calls' = [calls EXCEPT ![FirstFree] =
                           [pc |-> "infer", kind |-> "flush",
                            frame |-> PaddedFrame(buffer), lo |-> 1, hi |-> 0]]
                    /\ UNCHANGED <<buffer, fp, emitted, delivered, dropped>>
       ELSE /\ FlushTail(fp, emitted, delivered)
            /\ UNCHANGED <<calls, handed>>
    /\ UNCHANGED <<processingAudio, arrived, cfg, lim, failsLeft, active, resIn, modelAge, nextId>>
    /\ Spend

\* the model returns isSpeech = p for the frame call c waits on: the
\* FrameProcessor takes its transition, the event is handled, and the call
\* goes on (processAudio: next frame or return; flush: its tail)
InferenceDone(c, p) ==
    /\ calls[c].pc = "infer"
    /\ LET r == FPProcess(fp, calls[c].frame, p)
           em == emitted \o EventsOf(r.ev)
           dl == delivered \o HandleFrameProcessorEvent(r.ev)
       IN  /\ modelAge' = IF r.resetModel THEN 0 ELSE modelAge + 1
           /\ IF calls[c].kind = "flush"
              THEN /\ FlushTail(r.fp, em, dl)
                   /\ calls' = [calls EXCEPT ![c] = Free]
                   /\ handed' = Mark(handed, calls[c].frame, "returned")
              ELSE LET L == FrameLoop(buffer, r.fp.state = "Idle")
                   IN  /\ fp' = r.fp
                       /\ emitted' = em
                       /\ delivered' = dl
                       /\ buffer' = L.buffer
                       /\ handed' = Mark(handed, calls[c].frame, "returned")
                                        \o L.handed
                       /\ calls' = [calls EXCEPT ![c] =
                              IF L.wait = <<>> THEN Free
                              ELSE [calls[c] EXCEPT !.frame = L.wait[1]]]
                       /\ UNCHANGED dropped
    /\ UNCHANGED <<processingAudio, arrived, cfg, lim, failsLeft, active, resIn, nextId, opsLeft>>

\* model inference throws and the frame loop swallows the error and goes on
InferenceFailsSwallowed(c) ==
    /\ calls[c].pc = "infer"
    /\ failsLeft > 0
    /\ failsLeft' = failsLeft - 1
    /\ LET L == FrameLoop(buffer, fp.state = "Idle")
       IN  /\ buffer' = L.buffer
           /\ handed' = Mark(handed, calls[c].frame, "threw") \o L.handed
           /\ calls' = [calls EXCEPT ![c] =
                  IF L.wait = <<>> THEN Free ELSE [calls[c] EXCEPT !.frame = L.wait[1]]]
    /\ UNCHANGED <<processingAudio, arrived, cfg, lim, active, resIn, fp, modelAge, nextId, opsLeft,
                   emitted, delivered, dropped>>

\* model inference throws: the error leaves process(), then processAudio or
\* flush; the frame is gone and the rest of the call never runs
InferenceFails(c) ==
    /\ calls[c].pc = "infer"
    /\ failsLeft > 0
    /\ failsLeft' = failsLeft - 1
    /\ calls' = [calls EXCEPT ![c] = Free]
    /\ handed' = Mark(handed, calls[c].frame, "threw")
    /\ UNCHANGED <<processingAudio, arrived, cfg, lim, active, buffer, resIn, fp, modelAge, nextId, opsLeft,
                   emitted, delivered, dropped>>

Next ==
    \/ Start
    \/ Pause
    \/ Reset
    \/ Destroy
    \/ Flush
    \/ \E n \in ChunkLens : ProcessAudioPaused(n)
    \/ \E n \in ChunkLens : ProcessAudioDirect(n)
    \/ \E n \in ChunkLens : ProcessAudioResample(n)
    \/ \E c \in Slots : AppendResampled(c)
    \/ \E c \in Slots, p \in Probs : InferenceDone(c, p)
    \/ \E c \in Slots : InferenceFails(c)

Spec == Init /\ [][Next]_vars

----------------------------------------------------------------------------
(* The resampler on its own: successive process(input) calls on one        *)
(* Resampler; everything it returns is collected, in order, in `buffer',   *)
(* as processAudio does before its frame loop.                             *)

\* total number of native samples given to the resampler
MaxResamplerInput == 26

\* longest input of one process(input) call
MaxResamplerChunk == 7

\* native rates, with integer and fractional ratios to 16000
ResamplerConfigs ==
    { Option(1, 1, 1, TRUE, rate) : rate \in {24000, 32000, 44100, 48000} }

InitResampler ==
    /\ cfg \in ResamplerConfigs
    /\ lim = [calls |-> 1, samples |-> MaxSamples, ops |-> MaxOps]
    /\ active = FALSE
    /\ buffer = <<>>
    /\ resIn = <<>>
    /\ fp = FPInit
    /\ modelAge = 0
    /\ calls = [c \in Slots |-> Free]
    /\ nextId = 0
    /\ opsLeft = lim.ops
    /\ failsLeft = MaxFailures
    /\ handed = <<>>
    /\ emitted = <<>>
    /\ delivered = <<>>
    /\ dropped = <<>>
    /\ processingAudio = FALSE
    /\ arrived = <<>>

\* Resampler.process(input) with an input of n samples
ResamplerProcess(n) ==
    /\ nextId + n <= MaxResamplerInput
    /\ nextId' = nextId + n
    /\ LET inp == resIn \o Chunk(n)
       IN  /\ resIn' = ResampleResidue(inp, cfg.sampleRate)
           /\ buffer' = buffer \o ProcessedAudio(inp, cfg.sampleRate)
    /\ UNCHANGED <<processingAudio, arrived, cfg, lim, failsLeft, active, fp, modelAge, calls, opsLeft, handed,
                   emitted, delivered, dropped>>

NextResampler == \E n \in 0..MaxResamplerChunk : ResamplerProcess(n)

SpecResampler == InitResampler /\ [][NextResampler]_vars

----------------------------------------------------------------------------
(* AudioNodeVAD: the orchestrator of the browser package; its              *)
(* FrameProcessor reports every event by itself through a callback.        *)

\* AudioNodeVAD.handleFrameProcessorEvent(ev): the callbacks invoked
AudioNodeHandleFrameProcessorEvent(ev) ==
    CASE ev.msg = "FrameProcessed" ->
            <<[cb |-> "onFrameProcessed", probs |-> ev.probs, frame |-> ev.frame]>>
      [] ev.msg = "SpeechStart" -> <<[cb |-> "onSpeechStart"]>>
      [] ev.msg = "SpeechRealStart" -> <<[cb |-> "onSpeechRealStart"]>>
      [] ev.msg = "VADMisfire" -> <<[cb |-> "onVADMisfire"]>>
      [] ev.msg = "SpeechEnd" -> <<[cb |-> "onSpeechEnd", audio |-> ev.audio]>>
      [] OTHER -> <<>>

\* the callbacks the FrameProcessor makes AudioNodeVAD invoke for a result
NodeCallbacks(ev) ==
    LET es == EventsOf(ev)
    IN  Concat([i \in 1..Len(es) |-> AudioNodeHandleFrameProcessorEvent(es[i])])

\* history: an audio buffer given to onaudioprocess, samples lo..hi, taken
\* by the handler or dropped at the guard
Arrived(lo, hi, taken) == [lo |-> lo, hi |-> hi, taken |-> taken]

\* the loop `for (const frame of frames) await this.processFrame(frame)',
\* run until it suspends or ends: an Idle FrameProcessor returns at once
\* for every frame, otherwise the loop waits for the model on the first
NodeLoop(frames, idle) ==
    IF frames = <<>>
    THEN [handed |-> <<>>, wait |-> <<>>, rest |-> <<>>]
    ELSE IF idle
    THEN [handed |-> [i \in 1..Len(frames) |-> Handed(frames[i], "ignored")],
          wait |-> <<>>, rest |-> <<>>]
    ELSE [handed |-> <<Handed(Head(frames), "pending")>>,
          wait |-> <<Head(frames)>>, rest |-> Tail(frames)]

\* the audio buffers the script processor delivers, in native samples
NodeBufferLens == ChunkLens \ {0}

\* AudioNodeVAD.start
NodeStart ==
    /\ opsLeft > 0
    /\ fp' = FPResume(fp)
    /\ modelAge' = 0
    /\ dropped' = dropped \o (IF InSpeech(fp) THEN <<"resume">> ELSE <<>>)
    /\ UNCHANGED <<processingAudio, arrived, cfg, lim, failsLeft, active, buffer, resIn,
                   calls, nextId, handed, emitted, delivered>>
    /\ Spend

\* AudioNodeVAD.pause
NodePause ==
    /\ opsLeft > 0
    /\ LET r == FPPause(fp)
       IN  /\ fp' = r.fp
           /\ emitted' = emitted \o EventsOf(r.ev)
           /\ delivered' = delivered \o NodeCallbacks(r.ev)
           /\ dropped' = dropped \o [i \in 1..Discards(fp) |-> "pause"]
    /\ UNCHANGED <<processingAudio, arrived, cfg, lim, failsLeft, active, buffer, resIn,
                   modelAge, calls, nextId, handed>>
    /\ Spend

\* onaudioprocess while a handler is running: `if (processingAudio) return'
OnAudioProcessBusy(n) ==
    /\ processingAudio
    /\ nextId + n <= lim.samples * Ratio
    /\ nextId' = nextId + n
    /\ arrived' = Append(arrived, Arrived(nextId + 1, nextId + n, FALSE))
    /\ UNCHANGED <<processingAudio, cfg, lim, failsLeft, active, buffer, resIn, fp, modelAge,
                   calls, opsLeft, handed, emitted, delivered, dropped>>

\* the onaudioprocess handler without its guard
OnAudioProcessUnguarded(n) ==
    /\ FreeSlots # {}
    /\ nextId + n <= lim.samples * Ratio
    /\ nextId' = nextId + n
    /\ arrived' = Append(arrived, Arrived(nextId + 1, nextId + n, TRUE))
    /\ LET c == FirstFree
           inp == resIn \o Chunk(n)
           L == NodeLoop(ResampleFrames(inp, cfg.sampleRate), fp.state = "Idle")
       IN  /\ resIn' = ResampleResidue(inp, cfg.sampleRate)
           /\ handed' = handed \o L.handed
           /\ processingAudio' = (L.wait # <<>>)
           /\ calls' = [calls EXCEPT ![c] =
                  IF L.wait = <<>> THEN Free
                  ELSE [pc |-> "infer", kind |-> "onaudioprocess",
                        frame |-> L.wait[1], rest |-> L.rest,
                        lo |-> nextId + 1, hi |-> nextId + n]]
    /\ UNCHANGED <<cfg, lim, failsLeft, active, buffer, fp, modelAge, opsLeft, emitted,
                   delivered, dropped>>

\* onaudioprocess with no handler running: the guard is taken, the buffer
\* goes through the resampler, the frames are processed one by one; with
\* nothing to wait for the handler ends at once and releases the guard
OnAudioProcess(n) ==
    /\ ~processingAudio
    /\ FreeSlots # {}
    /\ nextId + n <= lim.samples * Ratio
    /\ nextId' = nextId + n
    /\ arrived' = Append(arrived, Arrived(nextId + 1, nextId + n, TRUE))
    /\ LET c == FirstFree
           inp == resIn \o Chunk(n)
           L == NodeLoop(ResampleFrames(inp, cfg.sampleRate), fp.state = "Idle")
       IN  /\ resIn' = ResampleResidue(inp, cfg.sampleRate)
           /\ handed' = handed \o L.handed
           /\ processingAudio' = (L.wait # <<>>)
           /\ calls' = [calls EXCEPT ![c] =
                  IF L.wait = <<>> THEN Free
                  ELSE [pc |-> "infer", kind |-> "onaudioprocess",
                        frame |-> L.wait[1], rest |-> L.rest,
                        lo |-> nextId + 1, hi |-> nextId + n]]
    /\ UNCHANGED <<cfg, lim, failsLeft, active, buffer, fp, modelAge, opsLeft, emitted,
                   delivered, dropped>>

\* the model answers for the frame handler c waits on: the events reach the
\* callbacks, the loop goes on; after the last frame `finally' releases the
\* guard
NodeInferenceDone(c, p) ==
    /\ calls[c].pc = "infer"
    /\ LET r == FPProcess(fp, calls[c].frame, p)
           L == NodeLoop(calls[c].rest, r.fp.state = "Idle")
       IN  /\ fp' = r.fp
           /\ modelAge' = IF r.resetModel THEN 0 ELSE modelAge + 1
           /\ emitted' = emitted \o EventsOf(r.ev)
           /\ delivered' = delivered \o NodeCallbacks(r.ev)
           /\ handed' = Mark(handed, calls[c].frame, "returned") \o L.handed
           /\ processingAudio' = IF L.wait = <<>> THEN FALSE ELSE processingAudio
           /\ calls' = [calls EXCEPT ![c] =
                  IF L.wait = <<>> THEN Free
                  ELSE [calls[c] EXCEPT !.frame = L.wait[1], !.rest = L.rest]]
    /\ UNCHANGED <<arrived, cfg, lim, failsLeft, active, buffer, resIn, nextId, opsLeft,
                   dropped>>

\* processFrame throws: `catch' logs the error, the remaining frames of the
\* buffer are never processed, `finally' releases the guard
NodeInferenceFails(c) ==
    /\ calls[c].pc = "infer"
    /\ failsLeft > 0
    /\ failsLeft' = failsLeft - 1
    /\ handed' = Mark(handed, calls[c].frame, "threw")
    /\ processingAudio' = FALSE
    /\ calls' = [calls EXCEPT ![c] = Free]
    /\ UNCHANGED <<arrived, cfg, lim, active, buffer, resIn, fp, modelAge, nextId, opsLeft,
                   emitted, delivered, dropped>>

AudioNodeConfigs == { Option(1, 1, 1, TRUE, 48000) }

InitAudioNode ==
    /\ cfg \in AudioNodeConfigs
    /\ lim = [calls |-> MaxCalls, samples |-> MaxSamples, ops |-> MaxOps]
    /\ active = FALSE
    /\ buffer = <<>>
    /\ resIn = <<>>
    /\ fp = FPInit
    /\ modelAge = 0
    /\ calls = [c \in Slots |-> Free]
    /\ nextId = 0
    /\ opsLeft = lim.ops
    /\ failsLeft = MaxFailures
    /\ handed = <<>>
    /\ emitted = <<>>
    /\ delivered = <<>>
    /\ dropped = <<>>
    /\ processingAudio = FALSE
    /\ arrived = <<>>

NextAudioNode ==
    \/ NodeStart
    \/ NodePause
    \/ \E n \in NodeBufferLens : OnAudioProcess(n)
    \/ \E n \in NodeBufferLens : OnAudioProcessBusy(n)
    \/ \E c \in Slots, p \in Probs : NodeInferenceDone(c, p)
    \/ \E c \in Slots : NodeInferenceFails(c)

SpecAudioNode == InitAudioNode /\ [][NextAudioNode]_vars

----------------------------------------------------------------------------
(* Callbacks that throw.  handleFrameProcessorEvent calls the caller's     *)
(* callbacks directly, so an exception leaves it and then the operation    *)
(* that called it, at that point.                                          *)

\* number of callbacks that throw
MaxThrows == 1

\* history: the callback invoked threw, inside operation `op'
Thrown(entry, op) ==
    [x \in DOMAIN entry \cup {"threw"} |-> IF x = "threw" THEN op ELSE entry[x]]

\* the callbacks handleFrameProcessorEvent(ev) gets to invoke when the k-th throws
HandleThrowing(ev, k, op) ==
    LET H == HandleFrameProcessorEvent(ev)
    IN  [i \in 1..k |-> IF i = k THEN Thrown(H[i], op) ELSE H[i]]

ThrowsSoFar == Cardinality({ i \in 1..Len(delivered) : Has(delivered[i], "threw") })

\* a callback throws while the result of process(frame) is handled: the
\* FrameProcessor has taken its transition, the rest of processAudio (its
\* loop) or of flush (endSegment, buffer reset) never runs
InferenceDoneThrows(c, p) ==
    /\ calls[c].pc = "infer"
    /\ ThrowsSoFar < MaxThrows
    /\ LET r == FPProcess(fp, calls[c].frame, p)
       IN  /\ \E k \in 1..Len(HandleFrameProcessorEvent(r.ev)) :
                 delivered' = delivered \o HandleThrowing(r.ev, k, calls[c].kind)
           /\ fp' = r.fp
           /\ emitted' = emitted \o EventsOf(r.ev)
           /\ modelAge' = IF r.resetModel THEN 0 ELSE modelAge + 1
    /\ handed' = Mark(handed, calls[c].frame, "returned")
    /\ calls' = [calls EXCEPT ![c] = Free]
    /\ UNCHANGED <<processingAudio, arrived, cfg, lim, failsLeft, active, buffer, resIn, nextId, opsLeft, dropped>>

\* the tail of flush() when the callback of endSegment's event throws: the
\* buffer reset is never reached
FlushTailThrows(f, em, dl) ==
    LET e == FPEndSegment(f)
    IN  /\ HandleFrameProcessorEvent(e.ev) # <<>>
        /\ fp' = e.fp
        /\ emitted' = em \o EventsOf(e.ev)
        /\ delivered' = dl \o HandleThrowing(e.ev, 1, "flush")
        /\ dropped' = dropped
        /\ buffer' = buffer

\* flush() that never waits, its final callback throws
FlushThrows ==
    /\ opsLeft > 0
    /\ ThrowsSoFar < MaxThrows
    /\ ~(Len(buffer) > 0 /\ Len(buffer) < frameSamples)
    /\ FlushTailThrows(fp, emitted, delivered)
    /\ UNCHANGED <<processingAudio, arrived, cfg, lim, failsLeft, active, resIn, modelAge, nextId, calls, handed>>
    /\ Spend

\* flush() after its padded frame: the frame's callbacks return, the final
\* callback throws
InferenceDoneTailThrows(c, p) ==
    /\ calls[c].pc = "infer"
    /\ calls[c].kind = "flush"
    /\ ThrowsSoFar < MaxThrows
    /\ LET r == FPProcess(fp, calls[c].frame, p)
       IN  /\ modelAge' = IF r.resetModel THEN 0 ELSE modelAge + 1
           /\ FlushTailThrows(r.fp, emitted \o EventsOf(r.ev),
                              delivered \o HandleFrameProcessorEvent(r.ev))
    /\ handed' = Mark(handed, calls[c].frame, "returned")
    /\ calls' = [calls EXCEPT ![c] = Free]
    /\ UNCHANGED <<processingAudio, arrived, cfg, lim, failsLeft, active, resIn, nextId, opsLeft>>

\* pause() whose terminal callback throws
PauseThrows ==
    /\ opsLeft > 0
    /\ ThrowsSoFar < MaxThrows
    /\ LET r == FPPause(fp)
       IN  /\ HandleFrameProcessorEvent(r.ev) # <<>>
           /\ active' = FALSE
           /\ fp' = r.fp
           /\ emitted' = emitted \o EventsOf(r.ev)
           /\ delivered' = delivered \o HandleThrowing(r.ev, 1, "pause")
    /\ UNCHANGED <<processingAudio, arrived, cfg, lim, failsLeft, buffer, resIn, modelAge, calls, nextId, handed,
                   dropped>>
    /\ Spend

\* destroy() whose pause() throws: reset() is never reached
DestroyThrows ==
    /\ opsLeft > 0
    /\ ThrowsSoFar < MaxThrows
    /\ LET r == FPPause(fp)
       IN  /\ HandleFrameProcessorEvent(r.ev) # <<>>
           /\ active' = FALSE
           /\ fp' = r.fp
           /\ emitted' = emitted \o EventsOf(r.ev)
           /\ delivered' = delivered \o HandleThrowing(r.ev, 1, "destroy")
    /\ UNCHANGED <<processingAudio, arrived, cfg, lim, failsLeft, buffer, resIn, modelAge, calls, nextId, handed,
                   dropped>>
    /\ Spend

\* a caller that awaits every call, a model that never fails, callbacks
\* that may throw
InitThrow ==
    /\ Init
    /\ lim.calls = 1

NextThrow ==
    \/ Start
    \/ Pause
    \/ Reset
    \/ Destroy
    \/ Flush
    \/ \E n \in ChunkLens : ProcessAudioPaused(n)
    \/ \E n \in ChunkLens : ProcessAudioDirect(n)
    \/ \E n \in ChunkLens : ProcessAudioResample(n)
    \/ \E c \in Slots : AppendResampled(c)
    \/ \E c \in Slots, p \in Probs : InferenceDone(c, p)
    \/ \E c \in Slots, p \in Probs : InferenceDoneThrows(c, p)
    \/ \E c \in Slots, p \in Probs : InferenceDoneTailThrows(c, p)
    \/ FlushThrows
    \/ PauseThrows
    \/ DestroyThrows

SpecThrow == InitThrow /\ [][NextThrow]_vars

----------------------------------------------------------------------------
(* The clean-speech scenario of the specification (section 8): the model   *)
(* is a stub that answers the scripted probabilities, frame after frame.   *)

\* 2 frames at 0.1, 10 frames at 0.9, 12 frames at 0.1
CleanSpeech ==
    [k \in 1..(2 + 10 + 12) |-> IF k <= 2 THEN 10 ELSE IF k <= 2 + 10 THEN 90 ELSE 10]

\* redemptionFrames = 8, preSpeechPadFrames = 1, minSpeechFrames = 3
CleanSpeechConfig == Option(2 * 2 * 2, 1, 1 + 2, FALSE, 16000)

\* the frames the model has answered for
FramesDone == Cardinality({ i \in 1..Len(handed) : handed[i].outcome = "returned" })

InitCleanSpeech ==
    /\ cfg = CleanSpeechConfig
    /\ lim = [calls |-> 1, samples |-> Len(CleanSpeech) * frameSamples, ops |-> 1]
    /\ active = FALSE
    /\ buffer = <<>>
    /\ resIn = <<>>
    /\ fp = FPInit
    /\ modelAge = 0
    /\ calls = [c \in Slots |-> Free]
    /\ nextId = 0
    /\ opsLeft = lim.ops
    /\ failsLeft = 0
    /\ handed = <<>>
    /\ emitted = <<>>
    /\ delivered = <<>>
    /\ dropped = <<>>
    /\ processingAudio = FALSE
    /\ arrived = <<>>

\* the stubbed model answers the next probability of the script
InferenceDoneCleanSpeech(c) ==
    /\ FramesDone < Len(CleanSpeech)
    /\ InferenceDone(c, CleanSpeech[FramesDone + 1])

NextCleanSpeech ==
    \/ Start
    \/ \E n \in ChunkLens : ProcessAudioDirect(n)
    \/ \E c \in Slots : InferenceDoneCleanSpeech(c)

SpecCleanSpeech == InitCleanSpeech /\ [][NextCleanSpeech]_vars

----------------------------------------------------------------------------
(* Longer runs of one stream: start() once, then audio, call after call,   *)
(* with redemptionFrames large enough for a gap inside a segment.          *)

\* number of frames of the stream
MaxStreamFrames == 7

StreamConfigs ==
    { Option(2, 1, 1, TRUE, 16000), Option(3, 1, 2, FALSE, 16000) }

InitStream ==
    /\ cfg \in StreamConfigs
    /\ lim = [calls |-> 1, samples |-> MaxStreamFrames * frameSamples, ops |-> 1]
    /\ active = FALSE
    /\ buffer = <<>>
    /\ resIn = <<>>
    /\ fp = FPInit
    /\ modelAge = 0
    /\ calls = [c \in Slots |-> Free]
    /\ nextId = 0
    /\ opsLeft = lim.ops
    /\ failsLeft = 0
    /\ handed = <<>>
    /\ emitted = <<>>
    /\ delivered = <<>>
    /\ dropped = <<>>
    /\ processingAudio = FALSE
    /\ arrived = <<>>

NextStream ==
    \/ Start
    \/ \E n \in ChunkLens : ProcessAudioDirect(n)
    \/ \E c \in Slots, p \in Probs : InferenceDone(c, p)

SpecStream == InitStream /\ [][NextStream]_vars

----------------------------------------------------------------------------
(* Pausing and restarting a stream: start() and pause() as often as the    *)
(* budget allows, audio in between, one call after the other.              *)

InitRestart ==
    /\ cfg \in StreamConfigs
    /\ lim = [calls |-> 1, samples |-> MaxSamples, ops |-> MaxOps + 1]
    /\ active = FALSE
    /\ buffer = <<>>
    /\ resIn = <<>>
    /\ fp = FPInit
    /\ modelAge = 0
    /\ calls = [c \in Slots |-> Free]
    /\ nextId = 0
    /\ opsLeft = lim.ops
    /\ failsLeft = 0
    /\ handed = <<>>
    /\ emitted = <<>>
    /\ delivered = <<>>
    /\ dropped = <<>>
    /\ processingAudio = FALSE
    /\ arrived = <<>>

NextRestart ==
    \/ Start
    \/ Pause
    \/ \E n \in ChunkLens : ProcessAudioPaused(n)
    \/ \E n \in ChunkLens : ProcessAudioDirect(n)
    \/ \E c \in Slots, p \in Probs : InferenceDone(c, p)

SpecRestart == InitRestart /\ [][NextRestart]_vars

----------------------------------------------------------------------------
(* Streams at a native rate other than 16 kHz: every chunk goes through    *)
(* the resampler; calls may overlap.                                       *)

ResampledConfigs ==
    { Option(1, 1, 2, TRUE, 48000), Option(1, 1, 1, FALSE, 44100) }

\* sequential calls with the whole budget, or overlapping calls after one
\* start() with a shorter stream
ResampledLimits ==
    { [calls |-> 1, samples |-> MaxSamples, ops |-> MaxOps],
      [calls |-> MaxCalls, samples |-> MaxSamples - 3, ops |-> MaxOps - 1] }

InitResampled ==
    /\ cfg \in ResampledConfigs
    /\ lim \in ResampledLimits
    /\ active = FALSE
    /\ buffer = <<>>
    /\ resIn = <<>>
    /\ fp = FPInit
    /\ modelAge = 0
    /\ calls = [c \in Slots |-> Free]
    /\ nextId = 0
    /\ opsLeft = lim.ops
    /\ failsLeft = MaxFailures
    /\ handed = <<>>
    /\ emitted = <<>>
    /\ delivered = <<>>
    /\ dropped = <<>>
    /\ processingAudio = FALSE
    /\ arrived = <<>>

NextResampled ==
    \/ Start
    \/ Pause
    \/ Reset
    \/ Destroy
    \/ Flush
    \/ \E n \in ChunkLens : ProcessAudioPaused(n)
    \/ \E n \in ChunkLens : ProcessAudioResample(n)
    \/ \E c \in Slots : AppendResampled(c)
    \/ \E c \in Slots, p \in Probs : InferenceDone(c, p)
    \/ \E c \in Slots : InferenceFails(c)

SpecResampled == InitResampled /\ [][NextResampled]_vars

----------------------------------------------------------------------------
(* Reading the histories                                                   *)

Callbacks(name) == { i \in 1..Len(delivered) : delivered[i].cb = name }
Emitted(name) == { i \in 1..Len(emitted) : emitted[i].msg = name }
TerminalCbs == {"onSpeechEnd", "onVADMisfire"}
SegmentCbs == TerminalCbs \cup {"onSpeechStart"}
TerminalMsgs == {"SpeechEnd", "VADMisfire"}
SegmentMsgs == TerminalMsgs \cup {"SpeechStart", "SpeechRealStart"}

\* the calls whose model inference is in flight
InFlight == { c \in Slots : calls[c].pc = "infer" }

\* the frames given to onFrameProcessed, in the order of the callbacks
RECURSIVE FramesIn(_)
FramesIn(log) ==
    IF log = <<>> THEN <<>>
    ELSE (IF Head(log).cb = "onFrameProcessed" THEN <<Head(log).frame>> ELSE <<>>)
             \o FramesIn(Tail(log))

\* the real samples of a frame (0 is flush's padding)
RealSamples(frame) == Range(frame) \ {0}

\* frames follow each other in the order their samples were submitted
InSampleOrder(frames) ==
    \A i, j \in 1..Len(frames) :
        i < j => \A a \in RealSamples(frames[i]), b \in RealSamples(frames[j]) : a < b

----------------------------------------------------------------------------
(* Claims                                                                  *)

\* C1: within one instance processAudio serializes frame processing even
\* when several calls are outstanding: at most one model inference is in
\* flight at any time, frames reach the model in the order their samples
\* were submitted, and events are emitted in that same order.
C1_Serialized ==
    /\ Cardinality(InFlight) <= 1
    /\ InSampleOrder([i \in 1..Len(handed) |-> handed[i].frame])
    /\ InSampleOrder(FramesIn(delivered))

\* the frames another call than c still waits on
OtherFrames(cs, c) == { cs[d].frame : d \in { e \in Slots \ {c} : cs[e].pc = "infer" } }

\* call c returns normally in this step
Resolves(c) ==
    /\ calls[c].pc # "idle"
    /\ calls[c].kind = "processAudio"
    /\ calls'[c].pc = "idle"
    /\ failsLeft' = failsLeft

\* C2: for every processAudio(chunk) call made while the instance is
\* active, every event produced by a frame that contains samples of that
\* chunk has been delivered before the call's promise resolves, also when
\* another processAudio call is still outstanding: at that moment no frame
\* holding samples of the chunk is still waiting for the model, and no
\* complete frame is left in the buffer.
C2_DeliveredBeforeResolve ==
    [][\A c \in Slots :
          Resolves(c) =>
             /\ \A f \in OtherFrames(calls', c) :
                   RealSamples(f) \cap (calls[c].lo .. calls[c].hi) = {}
             /\ Len(buffer') < frameSamples]_vars

\* the last position before i of log (field key) holding one of `names', or 0
LastBefore(log, key, names, i) ==
    LET js == { j \in 1..(i - 1) : log[j][key] \in names }
    IN  IF js = {} THEN 0 ELSE CHOOSE j \in js : \A k \in js : k <= j

\* the first position after i of log (field key) holding one of `names', or 0
FirstAfter(log, key, names, i) ==
    LET js == { j \in (i + 1)..Len(log) : log[j][key] \in names }
    IN  IF js = {} THEN 0 ELSE CHOOSE j \in js : \A k \in js : j <= k

\* every terminal callback closes the onSpeechStart right before it
TerminalsFollowStart ==
    \A i \in Callbacks("onSpeechEnd") \cup Callbacks("onVADMisfire") :
        LET j == LastBefore(delivered, "cb", SegmentCbs, i)
        IN  j # 0 /\ delivered[j].cb = "onSpeechStart"

\* the onSpeechStart callbacks no terminal callback closes
Unmatched ==
    { i \in Callbacks("onSpeechStart") :
        LET j == FirstAfter(delivered, "cb", SegmentCbs, i)
        IN  j = 0 \/ delivered[j].cb = "onSpeechStart" }

Open == IF InSpeech(fp) THEN 1 ELSE 0

\* C3 (as claimed): every SpeechStart is matched by exactly one later
\* SpeechEnd or VADMisfire, never by two, once the calls have ended with
\* pause or flush (no segment is in progress any more).
C3_MatchedExactlyOnce ==
    (Quiescent /\ ~InSpeech(fp)) => (TerminalsFollowStart /\ Unmatched = {})

\* C3 (amended): every SpeechStart is followed by at most one terminal
\* event of its segment, and by exactly one unless the segment is still in
\* progress or was discarded without an event: by start() while it was in
\* progress, or by pause() / flush() with submitUserSpeechOnPause = false
\* once it had reached minSpeechFrames.
C3_MatchedUnlessDiscarded ==
    /\ TerminalsFollowStart
    /\ Cardinality(Unmatched) = Len(dropped) + Open

\* C3: a segment was closed by pause() with its terminal event
C3_Witness ==
    /\ fp.state = "Idle"
    /\ Len(delivered) > 0
    /\ delivered[Len(delivered)].cb \in TerminalCbs
    /\ Unmatched = {}

\* C4 (as claimed): P1, at every quiescent point the SpeechStart events
\* equal in number the SpeechEnd plus the VADMisfire events.
C4_P1 ==
    Quiescent =>
        Cardinality(Callbacks("onSpeechStart")) =
            Cardinality(Callbacks("onSpeechEnd")) + Cardinality(Callbacks("onVADMisfire"))

\* C4 (amended): at every quiescent point #SpeechStart = #SpeechEnd +
\* #VADMisfire + 1 if a segment is in progress + the number of segments
\* discarded without an event (by start() mid-segment, or by pause() /
\* flush() with submitUserSpeechOnPause = false after minSpeechFrames).
C4_P1Balanced ==
    Quiescent =>
        Cardinality(Callbacks("onSpeechStart")) =
            Cardinality(Callbacks("onSpeechEnd")) + Cardinality(Callbacks("onVADMisfire"))
              + Open + Len(dropped)

\* C4: between two calls, with a segment in progress
C4_Witness ==
    /\ Quiescent
    /\ InSpeech(fp)
    /\ Cardinality(Callbacks("onSpeechStart")) = 1

\* SpeechRealStart is among the events this step emits
EmitsRealStart ==
    \E i \in (Len(emitted) + 1)..Len(emitted') : emitted'[i].msg = "SpeechRealStart"

\* every SpeechRealStart comes right after the SpeechStart of its segment:
\* no terminal event and no other SpeechRealStart lies between them
RealStartFollowsStart ==
    \A i \in Emitted("SpeechRealStart") :
        LET j == LastBefore(emitted, "msg", SegmentMsgs, i)
        IN  j # 0 /\ emitted[j].msg = "SpeechStart"

\* C5: SpeechRealStart, when emitted, comes strictly after the SpeechStart
\* of its segment and strictly before that segment's SpeechEnd or
\* VADMisfire, at most once per segment, and never while no segment is in
\* progress.
C5_RealStartInsideSegment ==
    /\ []RealStartFollowsStart
    /\ [][EmitsRealStart => InSpeech(fp)]_vars

\* C5: a segment with its SpeechRealStart has ended
C5_Witness ==
    \E i \in Emitted("SpeechRealStart") :
        \E j \in (i + 1)..Len(emitted) : emitted[j].msg \in TerminalMsgs

\* the frames with isSpeech >= positiveSpeechThreshold delivered for the
\* segment that the callback at position i closes
SpeechFramesBefore(i) ==
    LET s == LastBefore(delivered, "cb", {"onSpeechStart"}, i)
    IN  { j \in (s - 1)..(i - 1) :
            /\ j >= 1
            /\ delivered[j].cb = "onFrameProcessed"
            /\ delivered[j].probs >= cfg.positiveSpeechThreshold }

\* C6: SpeechEnd is emitted only for a segment whose number of frames with
\* isSpeech >= positiveSpeechThreshold is at least minSpeechFrames,
\* whichever operation ends the segment.
C6_SpeechEndMinFrames ==
    \A i \in Callbacks("onSpeechEnd") :
        /\ LastBefore(delivered, "cb", {"onSpeechStart"}, i) # 0
        /\ Cardinality(SpeechFramesBefore(i)) >= cfg.minSpeechFrames

\* C6: SpeechEnd delivered with minSpeechFrames of at least 2
C6_Witness ==
    /\ cfg.minSpeechFrames >= 2
    /\ Callbacks("onSpeechEnd") # {}

\* C7: a segment in which SpeechRealStart was emitted never ends with
\* VADMisfire, and every SpeechEnd is preceded by a SpeechRealStart of the
\* same segment, for every minSpeechFrames.
C7_RealStartBeforeEnd ==
    /\ \A i \in Emitted("VADMisfire") :
          LET j == LastBefore(emitted, "msg", {"SpeechStart", "SpeechRealStart"}, i)
          IN  j # 0 /\ emitted[j].msg = "SpeechStart"
    /\ \A i \in Emitted("SpeechEnd") :
          LET j == LastBefore(emitted, "msg", {"SpeechStart", "SpeechRealStart"}, i)
          IN  j # 0 /\ emitted[j].msg = "SpeechRealStart"

\* C8: P6, every frame handed to FrameProcessor.process has exactly
\* frameSamples samples, whatever the chunk lengths, with or without
\* resampling, and for the zero-padded frame of flush.
C8_FrameLength ==
    /\ \A i \in 1..Len(handed) : Len(handed[i].frame) = frameSamples
    /\ \A c \in InFlight : Len(calls[c].frame) = frameSamples

\* C8: flush has handed over a zero-padded frame after several frames
C8_Witness ==
    /\ Len(handed) >= 3
    /\ \E i \in 1..Len(handed) : 0 \in Range(handed[i].frame)

\* how often `frame' was reported by FrameProcessed / onFrameProcessed
TimesEmitted(frame) ==
    Cardinality({ i \in Emitted("FrameProcessed") : emitted[i].frame = frame })
TimesDelivered(frame) ==
    Cardinality({ i \in Callbacks("onFrameProcessed") : delivered[i].frame = frame })

\* C9: FrameProcessed is emitted exactly once for every call
\* of process(frame) that returns, whatever state the FrameProcessor is in
\* (Idle included), and onFrameProcessed is invoked exactly once per frame.
C9_OncePerCall ==
    \A i \in 1..Len(handed) :
        handed[i].outcome \in {"returned", "ignored"} =>
            /\ TimesEmitted(handed[i].frame) = 1
            /\ TimesDelivered(handed[i].frame) = 1

\* the last n elements of s
LastN(s, n) == SubSeq(s, Len(s) - n + 1, Len(s))

\* the audio of the onSpeechEnd at position i is made of k pre-roll frames
\* and the frames processed since the onSpeechStart of its segment
AudioMatches(i, k) ==
    LET s == LastBefore(delivered, "cb", {"onSpeechStart"}, i)
        before == FramesIn(SubSeq(delivered, 1, i - 1))
        since == Len(FramesIn(SubSeq(delivered, s, i - 1))) + 1
    IN  /\ s # 0
        /\ k + since <= Len(before)
        /\ delivered[i].audio = Concat(LastN(before, k + since))
        /\ Len(delivered[i].audio) = (k + since) * frameSamples

\* C10: the audio delivered with SpeechEnd has length (frames of the
\* segment) x frameSamples and consists of at most preSpeechPadFrames
\* pre-roll frames, the most recent ones processed before SpeechStart in
\* chronological order, followed by every frame processed since
\* SpeechStart, in order, none missing, duplicated or reordered.
C10_SpeechEndAudio ==
    \A i \in Callbacks("onSpeechEnd") :
        \E k \in 0..cfg.preSpeechPadFrames : AudioMatches(i, k)

\* C10: a SpeechEnd whose audio starts with a pre-roll frame
C10_Witness ==
    \E i \in Callbacks("onSpeechEnd") :
        \E k \in 1..cfg.preSpeechPadFrames : AudioMatches(i, k)

\* the number of frames of the segment that the onSpeechEnd at position i
\* closes: the frame of its onSpeechStart and those processed since
SegmentFrames(i) ==
    LET s == LastBefore(delivered, "cb", {"onSpeechStart"}, i)
    IN  Len(FramesIn(SubSeq(delivered, s, i - 1))) + 1

\* C11 (as claimed): P4, the audio delivered with each SpeechEnd is at least
\* (1 + preSpeechPadFrames) x frameSamples and at most (segmentFrames +
\* preSpeechPadFrames) x frameSamples long, also when speech starts before
\* preSpeechPadFrames frames have been processed since start().
C11_P4 ==
    \A i \in Callbacks("onSpeechEnd") :
        /\ Len(delivered[i].audio) >= (1 + cfg.preSpeechPadFrames) * frameSamples
        /\ Len(delivered[i].audio) <=
              (SegmentFrames(i) + cfg.preSpeechPadFrames) * frameSamples

\* C11 (amended): the audio delivered with each SpeechEnd is at least
\* segmentFrames x frameSamples long, so at least frameSamples (the pre-roll
\* holds only the frames processed since the ring was last cleared, possibly
\* none), and at most (segmentFrames + preSpeechPadFrames) x frameSamples.
C11_P4UpToPreRoll ==
    \A i \in Callbacks("onSpeechEnd") :
        /\ SegmentFrames(i) >= 1
        /\ Len(delivered[i].audio) >= SegmentFrames(i) * frameSamples
        /\ Len(delivered[i].audio) <=
              (SegmentFrames(i) + cfg.preSpeechPadFrames) * frameSamples

\* C11: speech started on the first frame after start(), with a pre-roll
\* configured, and the segment ended with SpeechEnd
C11_Witness ==
    \E i \in Callbacks("onSpeechEnd") :
        /\ cfg.preSpeechPadFrames > 0
        /\ Len(delivered[i].audio) = SegmentFrames(i) * frameSamples

\* this step is pause() (alone or inside destroy()) doing something
PauseStep ==
    /\ ~active'
    /\ active \/ (fp.state # "Idle" /\ fp'.state = "Idle")

\* the callbacks this step invokes
NewCallbacks == SubSeq(delivered', Len(delivered) + 1, Len(delivered'))

\* C12: P8, with submitUserSpeechOnPause = true, pause() during a segment
\* that has at least minSpeechFrames speech frames emits SpeechEnd with all
\* audio accumulated so far; with submitUserSpeechOnPause = false pause()
\* never emits SpeechEnd (VADMisfire or nothing); the FrameProcessor is Idle
\* afterwards in both cases.
C12_P8 ==
    [][PauseStep =>
          /\ fp'.state = "Idle"
          /\ (cfg.submitUserSpeechOnPause /\ InSpeech(fp)
                /\ fp.speechFramesInSegment >= cfg.minSpeechFrames)
               => NewCallbacks = <<[cb |-> "onSpeechEnd", audio |-> Concat(fp.segment)]>>
          /\ ~cfg.submitUserSpeechOnPause
               => NewCallbacks \in {<<>>, <<[cb |-> "onVADMisfire"]>>}]_vars

\* C12: pause() has just ended a segment whose last frame was speech, with
\* SpeechEnd
C12_Witness ==
    /\ cfg.submitUserSpeechOnPause
    /\ fp.state = "Idle"
    /\ Len(delivered) >= 2
    /\ delivered[Len(delivered)].cb = "onSpeechEnd"
    /\ delivered[Len(delivered) - 1].cb = "onFrameProcessed"
    /\ delivered[Len(delivered) - 1].probs >= cfg.positiveSpeechThreshold

\* this step is flush() running from call to return with a segment in
\* progress (no residue to pad, so it never waits)
FlushesSegment ==
    /\ InSpeech(fp)
    /\ calls' = calls
    /\ active' = active
    /\ fp'.state = "Silence"
    /\ dropped' = dropped \/ dropped' = Append(dropped, "endSegment")

\* this step is the return of a flush() that waited for its padded frame
FlushReturnsAfterFrame ==
    \E c \in Slots :
        /\ calls[c].pc = "infer"
        /\ calls[c].kind = "flush"
        /\ calls'[c].pc = "idle"
        /\ failsLeft' = failsLeft

\* what a step that is flush() owes the segment in progress
FlushTriggersFinalCallback ==
    /\ FlushesSegment =>
          /\ ~InSpeech(fp')
          /\ NewCallbacks =
                IF fp.speechFramesInSegment >= cfg.minSpeechFrames
                THEN <<[cb |-> "onSpeechEnd", audio |-> Concat(fp.segment)]>>
                ELSE <<[cb |-> "onVADMisfire"]>>
    /\ (FlushReturnsAfterFrame /\ InSpeech(fp)) =>
          /\ ~InSpeech(fp')
          /\ NewCallbacks # <<>>
          /\ NewCallbacks[Len(NewCallbacks)].cb \in TerminalCbs

\* C13: flush() called while a segment is in progress triggers the final
\* callback for it, onSpeechEnd with the accumulated audio when the segment
\* has at least minSpeechFrames speech frames, otherwise onVADMisfire, and
\* no segment is in progress once flush() has returned; also with the
\* default submitUserSpeechOnPause = false.
C13_FlushFinalCallback == [][FlushTriggersFinalCallback]_vars

\* this step is flush() called with a residue, up to its wait for the model
FlushCalled(c) ==
    /\ calls[c].pc = "idle"
    /\ calls'[c].pc = "infer"
    /\ calls'[c].kind = "flush"

\* the zero-padded frames this step hands to FrameProcessor.process
NewPadded ==
    { i \in (Len(handed) + 1)..Len(handed') : 0 \in Range(handed'[i].frame) }

\* flush() with a residue hands over exactly one frame: the residue, then
\* zeros; on a paused instance the Idle FrameProcessor returns at once and
\* flush() runs to its end in the same step
FlushPadsResidue ==
    /\ \A c \in Slots : FlushCalled(c) => NewPadded # {}
    /\ NewPadded # {} =>
          /\ Len(handed') = Len(handed) + 1
          /\ 0 < Len(buffer) /\ Len(buffer) < frameSamples
          /\ SliceTo(handed'[Len(handed')].frame, Len(buffer)) = buffer
          /\ Slice(handed'[Len(handed')].frame, Len(buffer))
                = Zeros(frameSamples - Len(buffer))
          /\ \/ /\ handed'[Len(handed')].outcome = "pending"
                /\ \E c \in Slots :
                      FlushCalled(c) /\ calls'[c].frame = handed'[Len(handed')].frame
             \/ /\ handed'[Len(handed')].outcome = "ignored"
                /\ fp.state = "Idle"
                /\ fp' = FPCleared("Silence")
                /\ buffer' = <<>>

\* when that flush() returns, the frame's event was delivered first, no
\* other frame was handed over, endSegment has run and the buffer is empty
FlushEndsAfterFrame ==
    \A c \in Slots :
        (calls[c].pc = "infer" /\ calls[c].kind = "flush" /\ calls'[c].pc = "idle"
            /\ failsLeft' = failsLeft) =>
            /\ Len(handed') = Len(handed)
            /\ NewCallbacks # <<>>
            /\ NewCallbacks[1].cb = "onFrameProcessed"
            /\ NewCallbacks[1].frame = calls[c].frame
            /\ Cardinality({ i \in 1..Len(NewCallbacks) :
                               NewCallbacks[i].cb = "onFrameProcessed" }) = 1
            /\ fp' = FPCleared("Silence")
            /\ buffer' = <<>>

\* with nothing pending, an operation that submits no samples hands no frame
\* over (flush() with n = 0, a second flush() right after the first)
NoResidueNoFrame ==
    (Quiescent /\ buffer = <<>> /\ nextId' = nextId) => Len(handed') = Len(handed)

Untouched == opsLeft = lim.ops /\ nextId = 0

\* a new instance is paused: inactive, FrameProcessor Idle, nothing pending
NewIsPaused ==
    Untouched => (~active /\ fp.state = "Idle" /\ buffer = <<>> /\ handed = <<>>
                    /\ emitted = <<>> /\ delivered = <<>>)

\* while the instance stays paused no chunk is taken: no sample is accepted
\* or resampled, the pending buffer does not grow and no processAudio call
\* comes to wait for the model; with no call outstanding nothing is
\* inferred and no frame reaches the model
PausedIgnoresAudio ==
    (~active /\ ~active') =>
        /\ nextId' = nextId
        /\ resIn' = resIn
        /\ Quiescent => (buffer' = buffer \/ buffer' = <<>>)
        /\ Quiescent => modelAge' \in {modelAge, 0}
        /\ \A c \in Slots :
              (calls[c].pc = "idle" /\ calls'[c].pc # "idle") => calls'[c].kind = "flush"

\* C15: a newly created RealTimeVAD is paused, and processAudio called while
\* the instance is paused (before the first start(), after pause(), after
\* destroy()) is ignored: pending buffer, FrameProcessor state and model
\* state unchanged, no inference, no event.
C15_PausedIgnores ==
    /\ []NewIsPaused
    /\ [][PausedIgnoresAudio]_vars

\* C15: paused again after start(), with a residue a further chunk would
\* complete to a frame
C15_Witness ==
    /\ ~active
    /\ fp.state = "Idle"
    /\ Quiescent
    /\ Len(buffer) > 0
    /\ ENABLED (\E n \in ChunkLens : n > 0 /\ ProcessAudioPaused(n))

\* every frame cut from a chunk is processed: none is handed to a
\* FrameProcessor that ignores it, and each one that returned was reported
InFlightFramesProcessed ==
    \A i \in 1..Len(handed) :
        0 \notin Range(handed[i].frame) =>
            /\ handed[i].outcome # "ignored"
            /\ handed[i].outcome = "returned" => TimesDelivered(handed[i].frame) = 1

\* once paused, no sample of a call that begins afterwards is taken
PausedTakesNothing == (~active /\ ~active') => nextId' = nextId

\* C16: cancellation, once pause() or destroy() has been called no sample
\* of a processAudio call that begins afterwards is processed, while the
\* frames of a call that was outstanding when pause() was called are still
\* processed and their events are still delivered.
C16_Cancellation ==
    /\ []InFlightFramesProcessed
    /\ [][PausedTakesNothing]_vars

\* model inference fails in this step for the frame processAudio call c
\* waits on
FailsIn(c) ==
    /\ failsLeft' < failsLeft
    /\ calls[c].pc = "infer"
    /\ calls[c].kind = "processAudio"
    /\ calls'[c] # calls[c]

\* the failure ends the call, loses its frame and nothing else: the
\* FrameProcessor, the model state and the pending samples stay as they were
FailureLosesOneFrame ==
    \A c \in Slots :
        FailsIn(c) =>
            /\ calls'[c].pc = "idle"
            /\ fp' = fp
            /\ modelAge' = modelAge
            /\ buffer' = buffer
            /\ emitted' = emitted /\ delivered' = delivered
            /\ Len(handed') = Len(handed)
            /\ \A i \in 1..Len(handed) :
                  handed'[i] = IF handed[i] = Handed(calls[c].frame, "pending")
                               THEN Handed(calls[c].frame, "threw") ELSE handed[i]

\* a frame whose inference failed is gone: it is never reported and none of
\* its samples is part of another frame cut by processAudio
FailedFrameNeverSeenAgain ==
    \A i \in 1..Len(handed) :
        (handed[i].outcome = "threw" /\ 0 \notin Range(handed[i].frame)) =>
            /\ TimesDelivered(handed[i].frame) = 0
            /\ \A j \in 1..Len(handed) :
                  (j # i /\ 0 \notin Range(handed[j].frame)) =>
                      Range(handed[j].frame) \cap Range(handed[i].frame) = {}

\* C17: when model inference fails for a frame during processAudio the error
\* leaves that call, exactly that frame is lost, the segment in progress
\* (FrameProcessor state, accumulated frames, counters) and the pending
\* samples after the frame are unchanged, and a later processAudio goes on
\* with the next samples as if the frame had never been submitted.
C17_InferenceFailure ==
    /\ []FailedFrameNeverSeenAgain
    /\ [][FailureLosesOneFrame]_vars

\* C17: after a failed frame the next frame was processed, inside a segment
C17_Witness ==
    \E i, j \in 1..Len(handed) :
        /\ i < j
        /\ handed[i].outcome = "threw"
        /\ 0 \notin Range(handed[i].frame)
        /\ handed[j].outcome = "returned"
        /\ InSpeech(fp)

\* no sample is handed to the FrameProcessor in two frames
NoSampleTwice ==
    \A i, j \in 1..Len(handed) :
        i # j => RealSamples(handed[i].frame) \cap RealSamples(handed[j].frame) = {}

\* a callback has thrown inside flush() in this step
ThrowsInFlush ==
    \E i \in 1..Len(NewCallbacks) :
        Has(NewCallbacks[i], "threw") /\ NewCallbacks[i].threw = "flush"

\* C18: a caller callback that throws while an event is delivered from
\* processAudio, pause or flush does not break the instance: no frame is
\* afterwards processed twice or skipped, and flush still clears the
\* pending buffer and ends the segment.
C18_CallbackThrows ==
    /\ []NoSampleTwice
    /\ [][ThrowsInFlush => (buffer' = <<>> /\ ~InSpeech(fp'))]_vars

\* the callback that stands for an event
CallbackOf(msg) ==
    CASE msg = "FrameProcessed" -> "onFrameProcessed"
      [] msg = "SpeechStart" -> "onSpeechStart"
      [] msg = "SpeechRealStart" -> "onSpeechRealStart"
      [] msg = "SpeechEnd" -> "onSpeechEnd"
      [] msg = "VADMisfire" -> "onVADMisfire"

\* C19: every event the FrameProcessor emits (FrameProcessed, SpeechStart,
\* SpeechRealStart, SpeechEnd, VADMisfire) is delivered to the caller
\* through the corresponding callback exactly once, by RealTimeVAD and by
\* AudioNodeVAD; no event kind is silently dropped.
C19_EveryEventDelivered ==
    /\ [i \in 1..Len(delivered) |-> delivered[i].cb]
          = [i \in 1..Len(emitted) |-> CallbackOf(emitted[i].msg)]
    /\ \A i \in 1..Len(emitted) :
          LET H == AudioNodeHandleFrameProcessorEvent(emitted[i])
          IN  Len(H) = 1 /\ H[1].cb = CallbackOf(emitted[i].msg)

\* all the samples submitted so far, as one input
Submitted == [i \in 1..nextId |-> i]

\* C20: resampler chunking invariance, however an input is split into
\* successive process(input) calls (empty ones included) the frames
\* returned, concatenated, are the frames of a single call on the whole
\* input, and the residue kept is shorter than inputSamplesPerFrame.
C20_ChunkingInvariance ==
    /\ buffer = Concat(ResampleFrames(Submitted, cfg.sampleRate))
    /\ Len(resIn) < InputSamplesPerFrame(cfg.sampleRate)

\* C20: two frames came out of at least two calls at a fractional ratio,
\* and a residue is kept
C20_Witness ==
    /\ cfg.sampleRate = 44100
    /\ Len(buffer) = 2 * frameSamples
    /\ resIn # <<>>

\* the length P5 gives for the output after N native samples, in samples
P5Length(N, rate) ==
    ((N * 16000) \div (rate * InputSamplesPerFrame(rate))) * frameSamples

Abs(x) == IF x < 0 THEN -x ELSE x

\* C21 (as claimed): P5, after any input prefix of N samples at rate r the
\* frames emitted times frameSamples equal
\* floor(N x 16000 / (r x inputSamplesPerFrame)) x frameSamples to within
\* one frame.
C21_P5 ==
    Abs(Len(buffer) - P5Length(nextId, cfg.sampleRate)) <= frameSamples

\* C21 (amended): after any input prefix of N samples the resampler has
\* emitted exactly floor(N / inputSamplesPerFrame) frames of frameSamples
\* samples, and keeps the other N mod inputSamplesPerFrame samples.
C21_P5PerInputFrame ==
    LET n == InputSamplesPerFrame(cfg.sampleRate)
    IN  /\ n = (frameSamples * cfg.sampleRate + 15999) \div 16000
        /\ Len(buffer) = (nextId \div n) * frameSamples
        /\ Len(resIn) = nextId % n

C21_Witness ==
    /\ cfg.sampleRate = 48000
    /\ nextId = 20
    /\ Len(buffer) = 3 * frameSamples
    /\ Len(resIn) = 2

\* reset() does to the instance what AfterReset says
ResetIsAfterReset == Reset => Instance' = AfterReset(Instance)

\* resetting a second time changes nothing
ResetTwiceIsResetOnce ==
    AfterReset(AfterReset(Instance)) = AfterReset(Instance)

\* C22: P7, reset() is idempotent: from every reachable state the state
\* after reset(); reset() is the state after one reset() (pending buffer
\* empty, model state at t = 0, everything else as after the first reset).
C22_P7 ==
    /\ []ResetTwiceIsResetOnce
    /\ [][ResetIsAfterReset]_vars

\* a reset() has emptied a buffer that held a residue and reset a model
\* that had run, in the middle of a segment
C22_Witness ==
    /\ InSpeech(fp)
    /\ Quiescent
    /\ modelAge = 0
    /\ buffer = <<>>
    /\ nextId % frameSamples = 1
    /\ AfterReset(Instance) = Instance

\* destroy() delivers what pause() delivers from the same state, and leaves
\* the instance as reset() leaves the paused one: inactive, FrameProcessor
\* Idle, pending buffer empty, model reset
DestroyIsPauseThenReset ==
    Destroy =>
        LET r == FPPause(fp)
        IN  /\ NewCallbacks = HandleFrameProcessorEvent(r.ev)
            /\ Instance' = AfterReset([Instance EXCEPT !.active = FALSE, !.fp = r.fp])
            /\ ~active' /\ buffer' = <<>> /\ modelAge' = 0

\* the instance as destroy() leaves it when no call is outstanding
Destroyed ==
    /\ ~active
    /\ fp.state = "Idle"
    /\ buffer = <<>>
    /\ modelAge = 0
    /\ Quiescent

\* as long as the destroyed instance is neither started nor flushed, no
\* call changes it or invokes a callback: processAudio takes no sample
DestroyedStaysPut ==
    (Destroyed /\ ~active' /\ fp'.state = "Idle") =>
        /\ Instance' = Instance
        /\ nextId' = nextId
        /\ UNCHANGED <<handed, emitted, delivered>>

\* C23: destroy() behaves as pause() followed by reset(): it delivers the
\* terminal event pause() would, leaves the instance inactive with an empty
\* pending buffer and the model reset; processAudio after destroy() leaves
\* that state unchanged and emits nothing.
C23_DestroyIsPauseReset ==
    [][DestroyIsPauseThenReset /\ DestroyedStaysPut]_vars

\* start(), speech with a residue pending, then destroy(): the segment was
\* submitted by destroy's pause and the residue is gone
C23_Witness ==
    /\ Destroyed
    /\ opsLeft = lim.ops - 2
    /\ nextId % frameSamples = 1
    /\ delivered # <<>>
    /\ delivered[Len(delivered)].cb = "onSpeechEnd"
    /\ ~Has(emitted[Len(emitted)], "probs")

\* the frames (counted from 1) on whose processing the FrameProcessor
\* produced event `name'
FramesOf(name) ==
    { Cardinality({ j \in 1..i : emitted[j].msg = "FrameProcessed" }) : i \in Emitted(name) }

\* the events of the clean-speech scenario as far as the frames processed
\* go: SpeechStart at frame 3, SpeechRealStart at frame 5, one SpeechEnd, at
\* frame 21, no VADMisfire
CleanSpeechEvents ==
    /\ FramesOf("SpeechStart") = {3} \cap (1..FramesDone)
    /\ Cardinality(Emitted("SpeechStart")) <= 1
    /\ FramesOf("SpeechRealStart") = {5} \cap (1..FramesDone)
    /\ Cardinality(Emitted("SpeechRealStart")) <= 1
    /\ FramesOf("SpeechEnd") = {21} \cap (1..FramesDone)
    /\ Cardinality(Emitted("SpeechEnd")) <= 1
    /\ Emitted("VADMisfire") = {}

\* C24 (as claimed): clean-speech scenario, 2 frames at 0.1, 10 at 0.9 and
\* 12 at 0.1 after start() yield SpeechStart at frame 3, SpeechRealStart at
\* frame 5 and exactly one SpeechEnd, at frame 21, whose audio is 19 frames
\* long (1 pre-roll + 10 speech + 8 redemption frames); no VADMisfire.
C24_CleanSpeech ==
    /\ CleanSpeechEvents
    /\ \A i \in Emitted("SpeechEnd") :
          Len(emitted[i].audio) = (1 + 10 + 8) * frameSamples

\* C24 (amended): SpeechStart at frame 3, SpeechRealStart at frame 5, exactly
\* one SpeechEnd, at frame 21, no VADMisfire; the audio is the 20 frames
\* 2..21 in order: 1 pre-roll frame, 10 speech frames and the 9 frames 13..21
\* processed in Redemption, the frame that exhausts the counter included.
C24_CleanSpeechTwentyFrames ==
    /\ CleanSpeechEvents
    /\ \A i \in Emitted("SpeechEnd") :
          /\ Len(emitted[i].audio) = (1 + 10 + 9) * frameSamples
          /\ emitted[i].audio = [k \in 1..(20 * frameSamples) |-> frameSamples + k]
          /\ \E j \in Callbacks("onSpeechEnd") : delivered[j].audio = emitted[i].audio

\* the whole script was fed and the segment has ended
C24_Witness ==
    /\ FramesDone = 2 + 10 + 12
    /\ Quiescent
    /\ Emitted("SpeechEnd") # {}
    /\ fp.state = "Silence"
    /\ Len(fp.preRoll) = 1

\* the events the FrameProcessor produces in this step
NewEvents == SubSeq(emitted', Len(emitted) + 1, Len(emitted'))

\* a frame with isSpeech >= positiveSpeechThreshold is processed in
\* Redemption, inside a confirmed segment
GapEnds ==
    /\ fp.state = "Redemption"
    /\ fp.origin = "SpeakingConfirmed"
    /\ NewEvents # <<>>
    /\ NewEvents[1].msg = "FrameProcessed"
    /\ NewEvents[1].probs >= cfg.positiveSpeechThreshold

\* the segment goes on: no event but FrameProcessed, the gap frames stay in
\* the accumulator, in order, followed by the frame
GapSurvives ==
    GapEnds =>
        /\ Len(NewEvents) = 1
        /\ fp'.state = "SpeakingConfirmed"
        /\ fp'.segment = Append(fp.segment, NewEvents[1].frame)
        /\ fp'.speechFramesInSegment >= fp.speechFramesInSegment

\* every run of silence starts with the full grace period
FullGrace ==
    (fp.state \in {"Speaking", "SpeakingConfirmed"} /\ fp'.state = "Redemption")
        => fp'.redemptionCounter = cfg.redemptionFrames

\* the isSpeech values of the frames processed before position i of emitted
ProbsBefore(i) ==
    LET fs == { j \in 1..(i - 1) : emitted[j].msg = "FrameProcessed" }
        Nth[k \in 0..Len(emitted)] ==
            IF k = 0 THEN <<>>
            ELSE IF k \in fs THEN Append(Nth[k - 1], emitted[k].probs) ELSE Nth[k - 1]
    IN  Nth[i - 1]

\* a segment ended by process() ends on redemptionFrames + 1 frames in a row
\* below positiveSpeechThreshold, the first below negativeSpeechThreshold,
\* and its audio ends with everything processed since SpeechStart
EndsAfterFullGrace ==
    \A i \in Emitted("SpeechEnd") \cup Emitted("VADMisfire") :
        LET ps == ProbsBefore(i)
            n == cfg.redemptionFrames + 1
        IN  /\ Len(ps) >= n
            /\ \A k \in (Len(ps) - n + 1)..Len(ps) : ps[k] < cfg.positiveSpeechThreshold
            /\ ps[Len(ps) - n + 1] < cfg.negativeSpeechThreshold

\* the audio of every SpeechEnd holds, in order, every frame processed
\* since the SpeechStart of its segment, the frames of a gap included
EndHoldsWholeSegment ==
    \A i \in Callbacks("onSpeechEnd") :
        \E k \in 0..cfg.preSpeechPadFrames : AudioMatches(i, k)

\* C25: a gap of sub-negative-threshold frames shorter than redemptionFrames
\* inside a confirmed segment, followed by a frame with isSpeech >=
\* positiveSpeechThreshold, does not end the segment: no SpeechEnd,
\* VADMisfire, second SpeechStart or second SpeechRealStart is emitted for
\* it, the gap frames are in the eventual SpeechEnd audio in order, and the
\* next run of silence gets the full redemptionFrames grace period again.
C25_GapSurvives ==
    /\ [](EndsAfterFullGrace /\ EndHoldsWholeSegment /\ RealStartFollowsStart)
    /\ [][GapSurvives /\ FullGrace]_vars

\* speech, confirmed, a gap, speech again, then silence until SpeechEnd:
\* one segment, with the gap frame in its audio
C25_Witness ==
    /\ Cardinality(Emitted("SpeechStart")) = 1
    /\ Cardinality(Emitted("SpeechRealStart")) = 1
    /\ Cardinality(Emitted("SpeechEnd")) = 1
    /\ \E i \in Emitted("SpeechEnd") :
          LET ps == ProbsBefore(i)
          IN  \E k \in 3..(Len(ps) - 1) :
                 /\ ps[k] < cfg.negativeSpeechThreshold
                 /\ ps[k + 1] >= cfg.positiveSpeechThreshold
                 /\ ps[k - 1] >= cfg.positiveSpeechThreshold
                 /\ Len(emitted[i].audio) >= (Len(ps) - k + 3) * frameSamples

\* the ring never holds more than preSpeechPadFrames frames
RingBounded == Len(fp.preRoll) <= cfg.preSpeechPadFrames

\* the ring takes a frame only when that frame is processed in Silence and
\* nothing is detected: the frame goes in last, the oldest frames leave
RingFedInSilence ==
    (fp'.preRoll # fp.preRoll /\ fp'.preRoll # <<>>) =>
        /\ fp.state = "Silence"
        /\ fp'.state = "Silence"
        /\ NewEvents # <<>>
        /\ NewEvents[1].msg = "FrameProcessed"
        /\ fp'.preRoll[Len(fp'.preRoll)] = NewEvents[1].frame
        /\ \E k \in 0..Len(fp.preRoll) :
              fp'.preRoll = Append(SubSeq(fp.preRoll, k + 1, Len(fp.preRoll)),
                                   NewEvents[1].frame)

\* the ring is empty right after SpeechStart, after the end of a segment
\* and after resume()
RingEmptied ==
    /\ (\E i \in 1..Len(NewEvents) : NewEvents[i].msg \in {"SpeechStart"} \cup TerminalMsgs)
          => fp'.preRoll = <<>>
    /\ Len(dropped') > Len(dropped) => fp'.preRoll = <<>>
    /\ Start => fp'.preRoll = <<>>
    /\ InSpeech(fp') => fp'.preRoll = <<>>

\* C26: the pre-roll ring never holds more than preSpeechPadFrames frames
\* (none when preSpeechPadFrames = 0), receives a frame only when that frame
\* is processed in state Silence, and is empty immediately after
\* SpeechStart, after segment termination and after resume().
C26_PreRollRing ==
    /\ []RingBounded
    /\ [][RingFedInSilence /\ RingEmptied]_vars

\* a full ring of two frames has evicted the first frame processed
C26_Witness ==
    /\ cfg.preSpeechPadFrames = 2
    /\ Len(fp.preRoll) = 2
    /\ fp.preRoll[1][1] = frameSamples + 1

\* a processAudio call that went into its frame loop returns normally in
\* this step: a call in flight ends without an error, or a call takes its
\* chunk and returns without having to wait
ProcessAudioReturns ==
    \/ \E c \in Slots :
          /\ calls[c].pc # "idle"
          /\ calls[c].kind = "processAudio"
          /\ calls'[c].pc = "idle"
          /\ failsLeft' = failsLeft
    \/ (nextId' > nextId /\ calls' = calls)

\* a processAudio call made now, with nothing outstanding, on a paused
\* instance: it returns at once and leaves everything as it is
PausedCallReturns == Quiescent /\ ~active

\* C27 (as claimed): whenever a processAudio call made with no other
\* processAudio outstanding returns normally, the pending buffer holds fewer
\* than frameSamples samples.
C27_BufferBelowFrame ==
    /\ [](PausedCallReturns => Len(buffer) < frameSamples)
    /\ [][ProcessAudioReturns => Len(buffer') < frameSamples]_vars

\* complete frames stay pending between calls only after an inference
\* failed
LeftoverOnlyAfterFailure ==
    (Quiescent /\ Len(buffer) >= frameSamples) => failsLeft < MaxFailures

\* C27 (amended): whenever a processAudio call made on an active instance
\* returns normally, the pending buffer holds fewer than frameSamples
\* samples; complete frames are left pending between calls only by a call
\* that ended with an inference error, and a call on a paused instance
\* leaves them there.
C27_BufferBelowFrameAfterLoop ==
    /\ []LeftoverOnlyAfterFailure
    /\ [][ProcessAudioReturns => Len(buffer') < frameSamples]_vars

\* an inference failed and left complete frames pending; a later call on
\* the active instance has processed them and returned
C27_Witness ==
    /\ Quiescent
    /\ active
    /\ Len(buffer) < frameSamples
    /\ \E i, j \in 1..Len(handed) :
          /\ i < j
          /\ handed[i].outcome = "threw"
          /\ handed[j].outcome = "returned"
          /\ handed[j].frame[1] = handed[i].frame[frameSamples] + 1

\* start() and nothing else but processAudio, one call after the other, at
\* 16 kHz
SequentialStream ==
    /\ cfg.sampleRate = 16000
    /\ lim.calls = 1
    /\ active
    /\ opsLeft = lim.ops - 1

\* samples from + 1 .. from + n of the concatenation of the submitted chunks
StreamSamples(from, n) == [i \in 1..n |-> from + i]

\* C28: at sampleRate = 16000 with sequential calls on an active instance,
\* the frames handed to the FrameProcessor depend only on the concatenation
\* of the submitted chunks: the k-th frame is samples [k x frameSamples,
\* (k+1) x frameSamples) of it, the samples not yet handed over are pending
\* in order, so no sample is dropped, duplicated or reordered.
C28_ChunkBoundaries ==
    SequentialStream =>
        /\ \A k \in 1..Len(handed) :
              handed[k].frame = StreamSamples((k - 1) * frameSamples, frameSamples)
        /\ Len(handed) * frameSamples <= nextId
        /\ buffer = StreamSamples(Len(handed) * frameSamples,
                                  nextId - Len(handed) * frameSamples)
        /\ (Quiescent /\ failsLeft = MaxFailures) => Len(handed) = nextId \div frameSamples

\* seven samples submitted in several chunks: three frames handed over, the
\* seventh sample pending
C28_Witness ==
    /\ SequentialStream
    /\ Quiescent
    /\ nextId = 3 * frameSamples + 1
    /\ Len(handed) = 3
    /\ buffer = <<nextId>>

\* pause() and start() do not touch the pending buffer
PauseStartKeepBuffer == (Pause \/ Start) => buffer' = buffer

\* whatever was accepted and not yet handed over is pending, in order, and
\* the frames handed over are the consecutive blocks of the samples
\* accepted, across pauses and restarts
ResidueCarriedOver ==
    /\ Len(handed) * frameSamples <= nextId
    /\ buffer = StreamSamples(Len(handed) * frameSamples,
                              nextId - Len(handed) * frameSamples)
    /\ \A k \in 1..Len(handed) :
          handed[k].frame = StreamSamples((k - 1) * frameSamples, frameSamples)

\* C29: pause() and start() leave the pending sample buffer unchanged: a
\* residue of fewer than frameSamples samples left by processAudio before
\* pause() is still there after a later start() and is the beginning of the
\* first frame processed after the restart.
C29_ResidueSurvivesRestart ==
    /\ []ResidueCarriedOver
    /\ [][PauseStartKeepBuffer]_vars

\* start(), one sample, pause(), start(), one more sample: the first frame
\* processed holds both
C29_Witness ==
    /\ active
    /\ opsLeft = lim.ops - 3
    /\ nextId = frameSamples
    /\ Len(handed) = 1
    /\ handed[1].outcome = "returned"
    /\ handed[1].frame = StreamSamples(0, frameSamples)
    /\ buffer = <<>>

\* C30: in every reachable state between calls the orchestrator's active
\* flag agrees with the FrameProcessor state: active is true exactly when
\* the FrameProcessor is not Idle, after every sequence of start, pause,
\* processAudio, flush, reset and destroy, flush() on a paused instance
\* included.
C30_ActiveAgreesWithFP ==
    Quiescent => (active <=> fp.state # "Idle")

\* the pending buffer holds whole frames only
WholeFramesPending == Len(buffer) % frameSamples = 0

\* no frame handed to the FrameProcessor carries flush's zero padding
NeverPadded ==
    \A i \in 1..Len(handed) : 0 \notin Range(handed[i].frame)

\* the resampler's residue changes only when a processAudio call feeds the
\* resampler: flush() and reset() (and start, pause, destroy) neither
\* process nor discard it, and flush() hands no frame over
ResidueOnlyFedByAudio ==
    /\ resIn' # resIn => nextId' > nextId
    /\ (Flush \/ Reset) => (resIn' = resIn /\ handed' = handed)

\* C31 (as claimed): when sampleRate # 16000 the pending buffer length is
\* always a multiple of frameSamples (zero between sequential calls), so
\* flush() never zero-pads a frame and the input samples held as residue
\* inside the resampler are neither processed nor discarded by flush() or
\* reset().
C31_ResampledBuffer ==
    /\ [](WholeFramesPending /\ NeverPadded)
    /\ []((lim.calls = 1 /\ Quiescent) => buffer = <<>>)
    /\ [][ResidueOnlyFedByAudio]_vars

\* between sequential calls frames are pending only after an inference
\* failed
PendingOnlyAfterFailure ==
    (lim.calls = 1 /\ Quiescent /\ buffer # <<>>) => failsLeft < MaxFailures

\* C31 (amended): when sampleRate # 16000 the pending buffer length is
\* always a multiple of frameSamples, zero between sequential calls unless a
\* call ended with an inference error and left whole frames pending; flush()
\* never zero-pads a frame, and the input samples held as residue inside the
\* resampler are neither processed nor discarded by flush() or reset().
C31_ResampledBufferWholeFrames ==
    /\ [](WholeFramesPending /\ NeverPadded /\ PendingOnlyAfterFailure)
    /\ [][ResidueOnlyFedByAudio]_vars

\* start(), a chunk of two frames and a half, speech, flush(): the segment
\* was submitted by flush, the half frame is still inside the resampler
C31_Witness ==
    /\ active
    /\ Quiescent
    /\ opsLeft = lim.ops - 2
    /\ fp.state = "Silence"
    /\ buffer = <<>>
    /\ resIn # <<>>
    /\ emitted # <<>>
    /\ emitted[Len(emitted)].msg = "SpeechEnd"
    /\ \E i \in 1..(Len(emitted) - 1) :
          /\ i = Len(emitted) - 1
          /\ emitted[i].msg = "FrameProcessed"
          /\ emitted[i].probs >= cfg.positiveSpeechThreshold

\* the samples of the buffers the handler took
TakenSamples ==
    UNION { arrived[i].lo .. arrived[i].hi : i \in { j \in 1..Len(arrived) : arrived[j].taken } }

\* the frames the handlers in flight have still to process
FramesWaiting ==
    SumSeq([c \in Slots |-> IF calls[c].pc = "infer" THEN Len(calls[c].rest) ELSE 0])

\* at most one handler body is running, and the guard is held exactly
\* while one is
OneHandler ==
    /\ Cardinality(InFlight) <= 1
    /\ processingAudio <=> InFlight # {}

\* nothing of a dropped buffer is ever held or processed: the resampler
\* holds samples of taken buffers only, and the frames processed or waiting
\* account for no more input than was taken (for all of it, residue
\* included, as long as no frame processing threw)
DroppedNeverProcessed ==
    LET used == InputSamplesPerFrame(cfg.sampleRate) * (Len(handed) + FramesWaiting)
                    + Len(resIn)
    IN  /\ Range(resIn) \subseteq TakenSamples
        /\ used <= Cardinality(TakenSamples)
        /\ failsLeft = MaxFailures => used = Cardinality(TakenSamples)

\* a buffer arrives in this step
BufferArrives == Len(arrived') = Len(arrived) + 1

\* a buffer that arrives while a handler is running is dropped whole, one
\* that arrives while none is running is taken
GuardDecides ==
    BufferArrives =>
        /\ arrived'[Len(arrived')].taken = ~processingAudio
        /\ processingAudio =>
              UNCHANGED <<processingAudio, resIn, calls, handed, fp, emitted, delivered>>

\* C32: in AudioNodeVAD at most one onaudioprocess handler body is
\* resampling and processing frames at any time; an audio buffer that
\* arrives while a previous one is being processed is dropped entirely
\* (never queued or processed later), and the processingAudio guard is
\* always released when the handler finishes, also when frame processing
\* throws, so a later buffer is processed again.
C32_OneHandlerAtATime ==
    /\ [](OneHandler /\ DroppedNeverProcessed)
    /\ [][GuardDecides]_vars

\* a buffer was dropped at the guard, frame processing threw, and a buffer
\* that arrived after that was taken and its frame processed
C32_Witness ==
    /\ ~processingAudio
    /\ \E i, j \in 1..Len(arrived) :
          /\ i < j
          /\ ~arrived[i].taken
          /\ arrived[j].taken
    /\ \E i, j \in 1..Len(handed) :
          /\ i < j
          /\ handed[i].outcome = "threw"
          /\ handed[j].outcome = "returned"

====
